---- MODULE Spec2Model ----
(***************************************************************************)
(* A model of figma-to-juce: the IR normalizer (figma/parser.ts), the      *)
(* paint and resize generators (codegen/paint.ts, codegen/resized.ts), the *)
(* component hierarchy builder (codegen/generator.ts) and the SVG path     *)
(* parser (codegen/path.ts).                                               *)
(*                                                                         *)
(* Generated C++ text is modelled line by line: a line is a record naming  *)
(* the operation it emits, the IR node it was emitted for, the per-node    *)
(* step ("part") that emitted it and the index of the fill, stroke, effect *)
(* or path entry it belongs to.  Numbers are integers; an opacity is given *)
(* in percent (100 is the source's 1.0).  Names and path strings are       *)
(* sequences of one-character strings.                                     *)
(***************************************************************************)
EXTENDS Integers, Sequences, FiniteSets, TLC

VARIABLES
    pc,          \* "input" before the operation of the specification ran, "done" after
    irDoc,       \* the IRDocument handed to generateFromDocument: a sequence of pages
    components,  \* the GeneratedComponent list generateFromDocument returned
    figmaDoc,    \* the FigmaFileResponse document handed to parseFigmaFile
    parsed,      \* what parseFigmaFile returned, or threw
    pathD,       \* the path string handed to parseSvgPath
    commands,    \* the SvgCommand list parseSvgPath returned
    jucePath,    \* the path operations svgToJucePath returned
    maxRetries,  \* options.maxRetries of the fetchWithRetry call
    attempt,     \* the loop counter of fetchWithRetry
    requests,    \* what each fetch call of the run was answered with, in order
    lastError,   \* the local lastError of fetchWithRetry: <<>> for null
    outcome      \* what fetchWithRetry returned or threw: <<>> while it runs

fetchVars == <<maxRetries, attempt, requests, lastError, outcome>>

vars == <<pc, irDoc, components, figmaDoc, parsed, pathD, commands, jucePath,
          fetchVars>>

\* No path has been converted and no fetchWithRetry call is in progress.
NoPath == jucePath = <<>>

NoFetch ==
    /\ maxRetries = 0
    /\ attempt = 0
    /\ requests = <<>>
    /\ lastError = <<>>
    /\ outcome = <<>>

\* ------------------------------------------------------------------ bounds

\* The longest child list of a top-level node of an input document.
MaxChildren == 2
\* The longest child list of a container below the top-level node.
MaxNested == 1

\* ----------------------------------------------------------------- helpers

RECURSIVE Flatten(_)
Flatten(ss) == IF ss = <<>> THEN <<>> ELSE Head(ss) \o Flatten(Tail(ss))

SeqsUpTo(S, n) == UNION { [1..k -> S] : k \in 0..n }

Max2(a, b) == IF a >= b THEN a ELSE b

\* Math.abs on an integer.
Abs(n) == IF n < 0 THEN 0 - n ELSE n

\* Lengths of the IR (bounds, relativeX, relativeY, the offset of a shadow) are counted in 1/PxScale
\* of a pixel, so that a design may place a node on a half pixel; toInt
\* rounds such a length to whole pixels, and the quotient of two of them is
\* the quotient of the two lengths in pixels.
PxScale == 2

\* Math.round(a / b) for b > 0: the nearest integer, a half going up.
RoundDiv(a, b) == (2 * a + b) \div (2 * b)

\* --------------------------------------------------------- characters

LowerAlpha == <<"a", "b", "c", "d", "e", "f", "g", "h", "i", "j", "k", "l", "m", "n", "o", "p", "q", "r", "s", "t", "u", "v", "w", "x", "y", "z">>
UpperAlpha == <<"A", "B", "C", "D", "E", "F", "G", "H", "I", "J", "K", "L", "M", "N", "O", "P", "Q", "R", "S", "T", "U", "V", "W", "X", "Y", "Z">>

\* String.prototype.toUpperCase on one character of [a-zA-Z0-9]: the callers
\* apply it to the first character of a word of a cleaned name and to the
\* letter of a path command.
ToUpperCase(c) ==
    IF \E i \in 1..26 : LowerAlpha[i] = c
    THEN UpperAlpha[CHOOSE i \in 1..26 : LowerAlpha[i] = c] ELSE c

\* String.prototype.toLowerCase on one character of [a-zA-Z0-9]: the caller
\* applies it to the first character of a class name.
ToLowerCase(c) ==
    IF \E i \in 1..26 : UpperAlpha[i] = c
    THEN LowerAlpha[CHOOSE i \in 1..26 : UpperAlpha[i] = c] ELSE c

\* ------------------------------------- String.prototype.toLowerCase
\*
\* scaleMode is a string of the response that nothing checks before it is
\* lower-cased, so it is kept as the program holds it: a sequence of UTF-16
\* code units, each a number of 0..65535.  CodeUnitsOf writes such a string
\* from the letters of a literal.
CharCode(c) ==
    IF \E i \in 1..26 : LowerAlpha[i] = c
    THEN 96 + (CHOOSE i \in 1..26 : LowerAlpha[i] = c)
    ELSE 64 + (CHOOSE i \in 1..26 : UpperAlpha[i] = c)
CodeUnitsOf(letters) == [k \in 1..Len(letters) |-> CharCode(letters[k])]

\* The code points of a string: a high surrogate (D800..DBFF) that a low one
\* (DC00..DFFF) follows makes one code point with it, any other code unit is
\* a code point by itself.
RECURSIVE CodePoints(_)
CodePoints(s) ==
    IF s = <<>> THEN <<>>
    ELSE IF Len(s) >= 2 /\ s[1] \in 55296..56319 /\ s[2] \in 56320..57343
    THEN <<65536 + (s[1] - 55296) * 1024 + (s[2] - 56320)>> \o CodePoints(SubSeq(s, 3, Len(s)))
    ELSE <<s[1]>> \o CodePoints(Tail(s))

\* The code units of a code point.
CodeUnits(c) ==
    IF c < 65536 THEN <<c>>
    ELSE <<55296 + (c - 65536) \div 1024, 56320 + ((c - 65536) % 1024)>>

\* The simple lower-case mapping of Unicode 17: <<first, last, step, delta>>
\* maps the code points first, first + step, ... up to last to themselves
\* plus delta; every other code point maps to itself.
LowerRuns ==
    <<<<65, 90, 1, 32>>, <<192, 214, 1, 32>>, <<216, 222, 1, 32>>, <<256, 302, 2, 1>>, <<304, 304, 1, -199>>,
      <<306, 310, 2, 1>>, <<313, 327, 2, 1>>, <<330, 374, 2, 1>>, <<376, 376, 1, -121>>, <<377, 381, 2, 1>>,
      <<385, 385, 1, 210>>, <<386, 388, 2, 1>>, <<390, 390, 1, 206>>, <<391, 391, 1, 1>>, <<393, 394, 1, 205>>,
      <<395, 395, 1, 1>>, <<398, 398, 1, 79>>, <<399, 399, 1, 202>>, <<400, 400, 1, 203>>, <<401, 401, 1, 1>>,
      <<403, 403, 1, 205>>, <<404, 404, 1, 207>>, <<406, 406, 1, 211>>, <<407, 407, 1, 209>>, <<408, 408, 1, 1>>,
      <<412, 412, 1, 211>>, <<413, 413, 1, 213>>, <<415, 415, 1, 214>>, <<416, 420, 2, 1>>, <<422, 422, 1, 218>>,
      <<423, 423, 1, 1>>, <<425, 425, 1, 218>>, <<428, 428, 1, 1>>, <<430, 430, 1, 218>>, <<431, 431, 1, 1>>,
      <<433, 434, 1, 217>>, <<435, 437, 2, 1>>, <<439, 439, 1, 219>>, <<440, 440, 1, 1>>, <<444, 444, 1, 1>>,
      <<452, 452, 1, 2>>, <<453, 453, 1, 1>>, <<455, 455, 1, 2>>, <<456, 456, 1, 1>>, <<458, 458, 1, 2>>,
      <<459, 475, 2, 1>>, <<478, 494, 2, 1>>, <<497, 497, 1, 2>>, <<498, 500, 2, 1>>, <<502, 502, 1, -97>>,
      <<503, 503, 1, -56>>, <<504, 542, 2, 1>>, <<544, 544, 1, -130>>, <<546, 562, 2, 1>>, <<570, 570, 1, 10795>>,
      <<571, 571, 1, 1>>, <<573, 573, 1, -163>>, <<574, 574, 1, 10792>>, <<577, 577, 1, 1>>, <<579, 579, 1, -195>>,
      <<580, 580, 1, 69>>, <<581, 581, 1, 71>>, <<582, 590, 2, 1>>, <<880, 882, 2, 1>>, <<886, 886, 1, 1>>,
      <<895, 895, 1, 116>>, <<902, 902, 1, 38>>, <<904, 906, 1, 37>>, <<908, 908, 1, 64>>, <<910, 911, 1, 63>>,
      <<913, 929, 1, 32>>, <<931, 939, 1, 32>>, <<975, 975, 1, 8>>, <<984, 1006, 2, 1>>, <<1012, 1012, 1, -60>>,
      <<1015, 1015, 1, 1>>, <<1017, 1017, 1, -7>>, <<1018, 1018, 1, 1>>, <<1021, 1023, 1, -130>>, <<1024, 1039, 1, 80>>,
      <<1040, 1071, 1, 32>>, <<1120, 1152, 2, 1>>, <<1162, 1214, 2, 1>>, <<1216, 1216, 1, 15>>, <<1217, 1229, 2, 1>>,
      <<1232, 1326, 2, 1>>, <<1329, 1366, 1, 48>>, <<4256, 4293, 1, 7264>>, <<4295, 4295, 1, 7264>>, <<4301, 4301, 1, 7264>>,
      <<5024, 5103, 1, 38864>>, <<5104, 5109, 1, 8>>, <<7305, 7305, 1, 1>>, <<7312, 7354, 1, -3008>>, <<7357, 7359, 1, -3008>>,
      <<7680, 7828, 2, 1>>, <<7838, 7838, 1, -7615>>, <<7840, 7934, 2, 1>>, <<7944, 7951, 1, -8>>, <<7960, 7965, 1, -8>>,
      <<7976, 7983, 1, -8>>, <<7992, 7999, 1, -8>>, <<8008, 8013, 1, -8>>, <<8025, 8031, 2, -8>>, <<8040, 8047, 1, -8>>,
      <<8072, 8079, 1, -8>>, <<8088, 8095, 1, -8>>, <<8104, 8111, 1, -8>>, <<8120, 8121, 1, -8>>, <<8122, 8123, 1, -74>>,
      <<8124, 8124, 1, -9>>, <<8136, 8139, 1, -86>>, <<8140, 8140, 1, -9>>, <<8152, 8153, 1, -8>>, <<8154, 8155, 1, -100>>,
      <<8168, 8169, 1, -8>>, <<8170, 8171, 1, -112>>, <<8172, 8172, 1, -7>>, <<8184, 8185, 1, -128>>, <<8186, 8187, 1, -126>>,
      <<8188, 8188, 1, -9>>, <<8486, 8486, 1, -7517>>, <<8490, 8490, 1, -8383>>, <<8491, 8491, 1, -8262>>, <<8498, 8498, 1, 28>>,
      <<8544, 8559, 1, 16>>, <<8579, 8579, 1, 1>>, <<9398, 9423, 1, 26>>, <<11264, 11311, 1, 48>>, <<11360, 11360, 1, 1>>,
      <<11362, 11362, 1, -10743>>, <<11363, 11363, 1, -3814>>, <<11364, 11364, 1, -10727>>, <<11367, 11371, 2, 1>>, <<11373, 11373, 1, -10780>>,
      <<11374, 11374, 1, -10749>>, <<11375, 11375, 1, -10783>>, <<11376, 11376, 1, -10782>>, <<11378, 11378, 1, 1>>, <<11381, 11381, 1, 1>>,
      <<11390, 11391, 1, -10815>>, <<11392, 11490, 2, 1>>, <<11499, 11501, 2, 1>>, <<11506, 11506, 1, 1>>, <<42560, 42604, 2, 1>>,
      <<42624, 42650, 2, 1>>, <<42786, 42798, 2, 1>>, <<42802, 42862, 2, 1>>, <<42873, 42875, 2, 1>>, <<42877, 42877, 1, -35332>>,
      <<42878, 42886, 2, 1>>, <<42891, 42891, 1, 1>>, <<42893, 42893, 1, -42280>>, <<42896, 42898, 2, 1>>, <<42902, 42920, 2, 1>>,
      <<42922, 42922, 1, -42308>>, <<42923, 42923, 1, -42319>>, <<42924, 42924, 1, -42315>>, <<42925, 42925, 1, -42305>>, <<42926, 42926, 1, -42308>>,
      <<42928, 42928, 1, -42258>>, <<42929, 42929, 1, -42282>>, <<42930, 42930, 1, -42261>>, <<42931, 42931, 1, 928>>, <<42932, 42946, 2, 1>>,
      <<42948, 42948, 1, -48>>, <<42949, 42949, 1, -42307>>, <<42950, 42950, 1, -35384>>, <<42951, 42953, 2, 1>>, <<42955, 42955, 1, -42343>>,
      <<42956, 42970, 2, 1>>, <<42972, 42972, 1, -42561>>, <<42997, 42997, 1, 1>>, <<65313, 65338, 1, 32>>, <<66560, 66599, 1, 40>>,
      <<66736, 66771, 1, 40>>, <<66928, 66964, 2, 39>>, <<66929, 66937, 2, 39>>, <<66941, 66953, 2, 39>>, <<66957, 66961, 2, 39>>,
      <<66965, 66965, 1, 39>>, <<68736, 68786, 1, 64>>, <<68944, 68965, 1, 32>>, <<71840, 71871, 1, 32>>, <<93760, 93791, 1, 32>>,
      <<93856, 93880, 1, 27>>, <<125184, 125217, 1, 34>>>>

InRun(c, run) == run[1] <= c /\ c <= run[2] /\ (c - run[1]) % run[3] = 0
SimpleLower(c) ==
    IF \E i \in DOMAIN LowerRuns : InRun(c, LowerRuns[i])
    THEN c + LowerRuns[CHOOSE i \in DOMAIN LowerRuns : InRun(c, LowerRuns[i])][4]
    ELSE c

\* The ranges <<first, last>> of the code points with the property
\* Case_Ignorable, and of those with the property Cased and without
\* Case_Ignorable.
CaseIgnorableRuns ==
    <<<<39, 39>>, <<46, 46>>, <<58, 58>>, <<94, 94>>, <<96, 96>>, <<168, 168>>, <<173, 173>>,
      <<175, 175>>, <<180, 180>>, <<183, 184>>, <<688, 879>>, <<884, 885>>, <<890, 890>>, <<900, 901>>,
      <<903, 903>>, <<1155, 1161>>, <<1369, 1369>>, <<1375, 1375>>, <<1425, 1469>>, <<1471, 1471>>, <<1473, 1474>>,
      <<1476, 1477>>, <<1479, 1479>>, <<1524, 1524>>, <<1536, 1541>>, <<1552, 1562>>, <<1564, 1564>>, <<1600, 1600>>,
      <<1611, 1631>>, <<1648, 1648>>, <<1750, 1757>>, <<1759, 1768>>, <<1770, 1773>>, <<1807, 1807>>, <<1809, 1809>>,
      <<1840, 1866>>, <<1958, 1968>>, <<2027, 2037>>, <<2042, 2042>>, <<2045, 2045>>, <<2070, 2093>>, <<2137, 2139>>,
      <<2184, 2184>>, <<2192, 2193>>, <<2199, 2207>>, <<2249, 2306>>, <<2362, 2362>>, <<2364, 2364>>, <<2369, 2376>>,
      <<2381, 2381>>, <<2385, 2391>>, <<2402, 2403>>, <<2417, 2417>>, <<2433, 2433>>, <<2492, 2492>>, <<2497, 2500>>,
      <<2509, 2509>>, <<2530, 2531>>, <<2558, 2558>>, <<2561, 2562>>, <<2620, 2620>>, <<2625, 2626>>, <<2631, 2632>>,
      <<2635, 2637>>, <<2641, 2641>>, <<2672, 2673>>, <<2677, 2677>>, <<2689, 2690>>, <<2748, 2748>>, <<2753, 2757>>,
      <<2759, 2760>>, <<2765, 2765>>, <<2786, 2787>>, <<2810, 2815>>, <<2817, 2817>>, <<2876, 2876>>, <<2879, 2879>>,
      <<2881, 2884>>, <<2893, 2893>>, <<2901, 2902>>, <<2914, 2915>>, <<2946, 2946>>, <<3008, 3008>>, <<3021, 3021>>,
      <<3072, 3072>>, <<3076, 3076>>, <<3132, 3132>>, <<3134, 3136>>, <<3142, 3144>>, <<3146, 3149>>, <<3157, 3158>>,
      <<3170, 3171>>, <<3201, 3201>>, <<3260, 3260>>, <<3263, 3263>>, <<3270, 3270>>, <<3276, 3277>>, <<3298, 3299>>,
      <<3328, 3329>>, <<3387, 3388>>, <<3393, 3396>>, <<3405, 3405>>, <<3426, 3427>>, <<3457, 3457>>, <<3530, 3530>>,
      <<3538, 3540>>, <<3542, 3542>>, <<3633, 3633>>, <<3636, 3642>>, <<3654, 3662>>, <<3761, 3761>>, <<3764, 3772>>,
      <<3782, 3782>>, <<3784, 3790>>, <<3864, 3865>>, <<3893, 3893>>, <<3895, 3895>>, <<3897, 3897>>, <<3953, 3966>>,
      <<3968, 3972>>, <<3974, 3975>>, <<3981, 3991>>, <<3993, 4028>>, <<4038, 4038>>, <<4141, 4144>>, <<4146, 4151>>,
      <<4153, 4154>>, <<4157, 4158>>, <<4184, 4185>>, <<4190, 4192>>, <<4209, 4212>>, <<4226, 4226>>, <<4229, 4230>>,
      <<4237, 4237>>, <<4253, 4253>>, <<4348, 4348>>, <<4957, 4959>>, <<5906, 5908>>, <<5938, 5939>>, <<5970, 5971>>,
      <<6002, 6003>>, <<6068, 6069>>, <<6071, 6077>>, <<6086, 6086>>, <<6089, 6099>>, <<6103, 6103>>, <<6109, 6109>>,
      <<6155, 6159>>, <<6211, 6211>>, <<6277, 6278>>, <<6313, 6313>>, <<6432, 6434>>, <<6439, 6440>>, <<6450, 6450>>,
      <<6457, 6459>>, <<6679, 6680>>, <<6683, 6683>>, <<6742, 6742>>, <<6744, 6750>>, <<6752, 6752>>, <<6754, 6754>>,
      <<6757, 6764>>, <<6771, 6780>>, <<6783, 6783>>, <<6823, 6823>>, <<6832, 6877>>, <<6880, 6891>>, <<6912, 6915>>,
      <<6964, 6964>>, <<6966, 6970>>, <<6972, 6972>>, <<6978, 6978>>, <<7019, 7027>>, <<7040, 7041>>, <<7074, 7077>>,
      <<7080, 7081>>, <<7083, 7085>>, <<7142, 7142>>, <<7144, 7145>>, <<7149, 7149>>, <<7151, 7153>>, <<7212, 7219>>,
      <<7222, 7223>>, <<7288, 7293>>, <<7376, 7378>>, <<7380, 7392>>, <<7394, 7400>>, <<7405, 7405>>, <<7412, 7412>>,
      <<7416, 7417>>, <<7468, 7530>>, <<7544, 7544>>, <<7579, 7679>>, <<8125, 8125>>, <<8127, 8129>>, <<8141, 8143>>,
      <<8157, 8159>>, <<8173, 8175>>, <<8189, 8190>>, <<8203, 8207>>, <<8216, 8217>>, <<8228, 8228>>, <<8231, 8231>>,
      <<8234, 8238>>, <<8288, 8292>>, <<8294, 8303>>, <<8305, 8305>>, <<8319, 8319>>, <<8336, 8348>>, <<8400, 8432>>,
      <<11388, 11389>>, <<11503, 11505>>, <<11631, 11631>>, <<11647, 11647>>, <<11744, 11775>>, <<11823, 11823>>, <<12293, 12293>>,
      <<12330, 12333>>, <<12337, 12341>>, <<12347, 12347>>, <<12441, 12446>>, <<12540, 12542>>, <<40981, 40981>>, <<42232, 42237>>,
      <<42508, 42508>>, <<42607, 42610>>, <<42612, 42621>>, <<42623, 42623>>, <<42652, 42655>>, <<42736, 42737>>, <<42752, 42785>>,
      <<42864, 42864>>, <<42888, 42890>>, <<42993, 42996>>, <<43000, 43001>>, <<43010, 43010>>, <<43014, 43014>>, <<43019, 43019>>,
      <<43045, 43046>>, <<43052, 43052>>, <<43204, 43205>>, <<43232, 43249>>, <<43263, 43263>>, <<43302, 43309>>, <<43335, 43345>>,
      <<43392, 43394>>, <<43443, 43443>>, <<43446, 43449>>, <<43452, 43453>>, <<43471, 43471>>, <<43493, 43494>>, <<43561, 43566>>,
      <<43569, 43570>>, <<43573, 43574>>, <<43587, 43587>>, <<43596, 43596>>, <<43632, 43632>>, <<43644, 43644>>, <<43696, 43696>>,
      <<43698, 43700>>, <<43703, 43704>>, <<43710, 43711>>, <<43713, 43713>>, <<43741, 43741>>, <<43756, 43757>>, <<43763, 43764>>,
      <<43766, 43766>>, <<43867, 43871>>, <<43881, 43883>>, <<44005, 44005>>, <<44008, 44008>>, <<44013, 44013>>, <<64286, 64286>>,
      <<64434, 64450>>, <<65024, 65039>>, <<65043, 65043>>, <<65056, 65071>>, <<65106, 65106>>, <<65109, 65109>>, <<65279, 65279>>,
      <<65287, 65287>>, <<65294, 65294>>, <<65306, 65306>>, <<65342, 65342>>, <<65344, 65344>>, <<65392, 65392>>, <<65438, 65439>>,
      <<65507, 65507>>, <<65529, 65531>>, <<66045, 66045>>, <<66272, 66272>>, <<66422, 66426>>, <<67456, 67461>>, <<67463, 67504>>,
      <<67506, 67514>>, <<68097, 68099>>, <<68101, 68102>>, <<68108, 68111>>, <<68152, 68154>>, <<68159, 68159>>, <<68325, 68326>>,
      <<68900, 68903>>, <<68942, 68942>>, <<68969, 68973>>, <<68975, 68975>>, <<69291, 69292>>, <<69317, 69317>>, <<69370, 69375>>,
      <<69446, 69456>>, <<69506, 69509>>, <<69633, 69633>>, <<69688, 69702>>, <<69744, 69744>>, <<69747, 69748>>, <<69759, 69761>>,
      <<69811, 69814>>, <<69817, 69818>>, <<69821, 69821>>, <<69826, 69826>>, <<69837, 69837>>, <<69888, 69890>>, <<69927, 69931>>,
      <<69933, 69940>>, <<70003, 70003>>, <<70016, 70017>>, <<70070, 70078>>, <<70089, 70092>>, <<70095, 70095>>, <<70191, 70193>>,
      <<70196, 70196>>, <<70198, 70199>>, <<70206, 70206>>, <<70209, 70209>>, <<70367, 70367>>, <<70371, 70378>>, <<70400, 70401>>,
      <<70459, 70460>>, <<70464, 70464>>, <<70502, 70508>>, <<70512, 70516>>, <<70587, 70592>>, <<70606, 70606>>, <<70608, 70608>>,
      <<70610, 70610>>, <<70625, 70626>>, <<70712, 70719>>, <<70722, 70724>>, <<70726, 70726>>, <<70750, 70750>>, <<70835, 70840>>,
      <<70842, 70842>>, <<70847, 70848>>, <<70850, 70851>>, <<71090, 71093>>, <<71100, 71101>>, <<71103, 71104>>, <<71132, 71133>>,
      <<71219, 71226>>, <<71229, 71229>>, <<71231, 71232>>, <<71339, 71339>>, <<71341, 71341>>, <<71344, 71349>>, <<71351, 71351>>,
      <<71453, 71453>>, <<71455, 71455>>, <<71458, 71461>>, <<71463, 71467>>, <<71727, 71735>>, <<71737, 71738>>, <<71995, 71996>>,
      <<71998, 71998>>, <<72003, 72003>>, <<72148, 72151>>, <<72154, 72155>>, <<72160, 72160>>, <<72193, 72202>>, <<72243, 72248>>,
      <<72251, 72254>>, <<72263, 72263>>, <<72273, 72278>>, <<72281, 72283>>, <<72330, 72342>>, <<72344, 72345>>, <<72544, 72544>>,
      <<72546, 72548>>, <<72550, 72550>>, <<72752, 72758>>, <<72760, 72765>>, <<72767, 72767>>, <<72850, 72871>>, <<72874, 72880>>,
      <<72882, 72883>>, <<72885, 72886>>, <<73009, 73014>>, <<73018, 73018>>, <<73020, 73021>>, <<73023, 73029>>, <<73031, 73031>>,
      <<73104, 73105>>, <<73109, 73109>>, <<73111, 73111>>, <<73177, 73177>>, <<73459, 73460>>, <<73472, 73473>>, <<73526, 73530>>,
      <<73536, 73536>>, <<73538, 73538>>, <<73562, 73562>>, <<78896, 78912>>, <<78919, 78933>>, <<90398, 90409>>, <<90413, 90415>>,
      <<92912, 92916>>, <<92976, 92982>>, <<92992, 92995>>, <<93504, 93506>>, <<93547, 93548>>, <<94031, 94031>>, <<94095, 94111>>,
      <<94176, 94177>>, <<94179, 94180>>, <<94194, 94195>>, <<110576, 110579>>, <<110581, 110587>>, <<110589, 110590>>, <<113821, 113822>>,
      <<113824, 113827>>, <<118528, 118573>>, <<118576, 118598>>, <<119143, 119145>>, <<119155, 119170>>, <<119173, 119179>>, <<119210, 119213>>,
      <<119362, 119364>>, <<121344, 121398>>, <<121403, 121452>>, <<121461, 121461>>, <<121476, 121476>>, <<121499, 121503>>, <<121505, 121519>>,
      <<122880, 122886>>, <<122888, 122904>>, <<122907, 122913>>, <<122915, 122916>>, <<122918, 122922>>, <<122928, 122989>>, <<123023, 123023>>,
      <<123184, 123197>>, <<123566, 123566>>, <<123628, 123631>>, <<124139, 124143>>, <<124398, 124399>>, <<124643, 124643>>, <<124646, 124646>>,
      <<124654, 124655>>, <<124661, 124661>>, <<124671, 124671>>, <<125136, 125142>>, <<125252, 125259>>, <<127995, 127999>>, <<917505, 917505>>,
      <<917536, 917631>>, <<917760, 917999>>>>
CasedRuns ==
    <<<<65, 90>>, <<97, 122>>, <<170, 170>>, <<181, 181>>, <<186, 186>>, <<192, 214>>, <<216, 246>>,
      <<248, 442>>, <<444, 447>>, <<452, 659>>, <<662, 687>>, <<880, 883>>, <<886, 887>>, <<891, 893>>,
      <<895, 895>>, <<902, 902>>, <<904, 906>>, <<908, 908>>, <<910, 929>>, <<931, 1013>>, <<1015, 1153>>,
      <<1162, 1327>>, <<1329, 1366>>, <<1376, 1416>>, <<4256, 4293>>, <<4295, 4295>>, <<4301, 4301>>, <<4304, 4346>>,
      <<4349, 4351>>, <<5024, 5109>>, <<5112, 5117>>, <<7296, 7306>>, <<7312, 7354>>, <<7357, 7359>>, <<7424, 7467>>,
      <<7531, 7543>>, <<7545, 7578>>, <<7680, 7957>>, <<7960, 7965>>, <<7968, 8005>>, <<8008, 8013>>, <<8016, 8023>>,
      <<8025, 8025>>, <<8027, 8027>>, <<8029, 8029>>, <<8031, 8061>>, <<8064, 8116>>, <<8118, 8124>>, <<8126, 8126>>,
      <<8130, 8132>>, <<8134, 8140>>, <<8144, 8147>>, <<8150, 8155>>, <<8160, 8172>>, <<8178, 8180>>, <<8182, 8188>>,
      <<8450, 8450>>, <<8455, 8455>>, <<8458, 8467>>, <<8469, 8469>>, <<8473, 8477>>, <<8484, 8484>>, <<8486, 8486>>,
      <<8488, 8488>>, <<8490, 8493>>, <<8495, 8500>>, <<8505, 8505>>, <<8508, 8511>>, <<8517, 8521>>, <<8526, 8526>>,
      <<8544, 8575>>, <<8579, 8580>>, <<9398, 9449>>, <<11264, 11387>>, <<11390, 11492>>, <<11499, 11502>>, <<11506, 11507>>,
      <<11520, 11557>>, <<11559, 11559>>, <<11565, 11565>>, <<42560, 42605>>, <<42624, 42651>>, <<42786, 42863>>, <<42865, 42887>>,
      <<42891, 42894>>, <<42896, 42972>>, <<42997, 42998>>, <<43002, 43002>>, <<43824, 43866>>, <<43872, 43880>>, <<43888, 43967>>,
      <<64256, 64262>>, <<64275, 64279>>, <<65313, 65338>>, <<65345, 65370>>, <<66560, 66639>>, <<66736, 66771>>, <<66776, 66811>>,
      <<66928, 66938>>, <<66940, 66954>>, <<66956, 66962>>, <<66964, 66965>>, <<66967, 66977>>, <<66979, 66993>>, <<66995, 67001>>,
      <<67003, 67004>>, <<68736, 68786>>, <<68800, 68850>>, <<68944, 68965>>, <<68976, 68997>>, <<71840, 71903>>, <<93760, 93823>>,
      <<93856, 93880>>, <<93883, 93907>>, <<119808, 119892>>, <<119894, 119964>>, <<119966, 119967>>, <<119970, 119970>>, <<119973, 119974>>,
      <<119977, 119980>>, <<119982, 119993>>, <<119995, 119995>>, <<119997, 120003>>, <<120005, 120069>>, <<120071, 120074>>, <<120077, 120084>>,
      <<120086, 120092>>, <<120094, 120121>>, <<120123, 120126>>, <<120128, 120132>>, <<120134, 120134>>, <<120138, 120144>>, <<120146, 120485>>,
      <<120488, 120512>>, <<120514, 120538>>, <<120540, 120570>>, <<120572, 120596>>, <<120598, 120628>>, <<120630, 120654>>, <<120656, 120686>>,
      <<120688, 120712>>, <<120714, 120744>>, <<120746, 120770>>, <<120772, 120779>>, <<122624, 122633>>, <<122635, 122654>>, <<122661, 122666>>,
      <<125184, 125251>>, <<127280, 127305>>, <<127312, 127337>>, <<127344, 127369>>>>

InRanges(c, ranges) == \E i \in DOMAIN ranges : ranges[i][1] <= c /\ c <= ranges[i][2]

\* The condition Final_Sigma at position k of the code points s: going back
\* from k over the case-ignorable code points there is a cased letter, and
\* going on from k over the case-ignorable ones there is none.
FinalSigma(s, k) ==
    /\ \E j \in 1..(k - 1) :
          /\ InRanges(s[j], CasedRuns)
          /\ \A i \in (j + 1)..(k - 1) : InRanges(s[i], CaseIgnorableRuns)
    /\ ~\E j \in (k + 1)..Len(s) :
          /\ InRanges(s[j], CasedRuns)
          /\ \A i \in (k + 1)..(j - 1) : InRanges(s[i], CaseIgnorableRuns)

\* The lower case of the code point at position k, in code units: the capital
\* sigma (3A3) gives the final small sigma (3C2) or the small sigma (3C3),
\* the capital I with dot above (130) gives i and the combining dot above
\* (69, 307), any other code point its simple mapping.
LowerAt(s, k) ==
    IF s[k] = 931 THEN (IF FinalSigma(s, k) THEN <<962>> ELSE <<963>>)
    ELSE IF s[k] = 304 THEN <<105, 775>>
    ELSE CodeUnits(SimpleLower(s[k]))

LowerOfCodePoints(s) == Flatten([k \in 1..Len(s) |-> LowerAt(s, k)])

\* String.prototype.toLowerCase on a string of code units.
toLowerCase(s) == LowerOfCodePoints(CodePoints(s))

IsLetter(c) == \E i \in 1..26 : LowerAlpha[i] = c \/ UpperAlpha[i] = c

\* The characters of the class \s of a regular expression, which are also the
\* characters String.prototype.trim removes: tab, line feed, vertical tab,
\* form feed, carriage return, blank, no-break space, ogham space mark and
\* the byte order mark.  (The class also holds U+2000 to U+200A, U+2028,
\* U+2029, U+202F, U+205F and U+3000, which a string of a module cannot
\* hold.)
WhiteSpace == {"\t", "\n", "", "\f", "\r", " ", " ", " ", "﻿"}

\* ------------------------------------------------ utils/math.ts (numbers)

\* toFloat rounds to this many decimals.
FloatDecimals == 4

RECURSIVE Pow10(_)
Pow10(n) == IF n <= 0 THEN 1 ELSE 10 * Pow10(n - 1)

\* The factor of roundTo(value, FloatDecimals), and the unit of the literals
\* toFloat prints: a literal is a whole number of 10^-FloatDecimals.
Unit == Pow10(FloatDecimals)

\* ---- natural numbers of any size

\* A natural number is the sequence of its digits to the base Limb, the
\* lowest first and the highest not 0; the number 0 is <<>>.
Limb == 2^15

\* a without the zeros it ends in.
BigNorm(a) ==
    IF a = <<>> \/ a[Len(a)] # 0 THEN a
    ELSE LET nz == { i \in 1..Len(a) : a[i] # 0 }
         IN  IF nz = {} THEN <<>>
             ELSE SubSeq(a, 1, CHOOSE i \in nz : \A j \in nz : j <= i)

\* The natural number n (an integer of the checker).
RECURSIVE BigOf(_)
BigOf(n) == IF n = 0 THEN <<>> ELSE <<n % Limb>> \o BigOf(n \div Limb)

\* The value of a as an integer of the checker (a < 2^30).
RECURSIVE BigValue(_)
BigValue(a) == IF a = <<>> THEN 0 ELSE a[1] + Limb * BigValue(Tail(a))

\* a with zeros after it up to the length n.
Pad(a, n) == a \o [i \in 1..(n - Len(a)) |-> 0]

\* The digits p.d with the carry p.c as the highest digit.
WithCarry(p) == BigNorm(Append(p.d, p.c))

\* The operations on digit sequences split the sequence in two and carry
\* from one half into the other; the test of the carry that comes in has it
\* computed before the half it goes into is split further.  Digit by digit,
\* a + b + c for sequences of one length and a carry c of 0 or 1: the digits
\* and the carry out.
RECURSIVE AddDigits(_, _, _)
AddDigits(a, b, c) ==
    CASE Len(a) = 0 -> [d |-> <<>>, c |-> c]
      [] Len(a) = 1 ->
            [d |-> <<(a[1] + b[1] + c) % Limb>>, c |-> (a[1] + b[1] + c) \div Limb]
      [] Len(a) > 1 /\ c \in 0..1 ->
         LET h == Len(a) \div 2
             lo == AddDigits(SubSeq(a, 1, h), SubSeq(b, 1, h), c)
             hi == AddDigits(SubSeq(a, h + 1, Len(a)), SubSeq(b, h + 1, Len(a)), lo.c)
         IN  [d |-> lo.d \o hi.d, c |-> hi.c]

BigAdd(a, b) ==
    LET n == Max2(Len(a), Len(b))
    IN  WithCarry(AddDigits(Pad(a, n), Pad(b, n), 0))

\* Digit by digit, a - b - c for sequences of one length and a borrow c of
\* 0 or 1: the digits and the borrow out.
RECURSIVE SubDigits(_, _, _)
SubDigits(a, b, c) ==
    CASE Len(a) = 0 -> [d |-> <<>>, c |-> c]
      [] Len(a) = 1 ->
            [d |-> <<(a[1] - b[1] - c + Limb) % Limb>>,
             c |-> IF a[1] - b[1] - c < 0 THEN 1 ELSE 0]
      [] Len(a) > 1 /\ c \in 0..1 ->
         LET h == Len(a) \div 2
             lo == SubDigits(SubSeq(a, 1, h), SubSeq(b, 1, h), c)
             hi == SubDigits(SubSeq(a, h + 1, Len(a)), SubSeq(b, h + 1, Len(a)), lo.c)
         IN  [d |-> lo.d \o hi.d, c |-> hi.c]

\* a - b for a >= b
BigSub(a, b) == BigNorm(SubDigits(a, Pad(b, Len(a)), 0).d)

\* a < b
BigLess(a, b) ==
    IF Len(a) # Len(b) THEN Len(a) < Len(b)
    ELSE LET diff == { i \in 1..Len(a) : a[i] # b[i] }
         IN  diff # {} /\ LET i == CHOOSE i \in diff : \A j \in diff : j <= i
                          IN  a[i] < b[i]

\* Digit by digit, a * k + c for 0 < k <= Limb and c < Limb: the digits and
\* the carry out.
RECURSIVE MulDigits(_, _, _)
MulDigits(a, k, c) ==
    CASE Len(a) = 0 -> [d |-> <<>>, c |-> c]
      [] Len(a) = 1 ->
            [d |-> <<(a[1] * k + c) % Limb>>, c |-> (a[1] * k + c) \div Limb]
      [] Len(a) > 1 /\ c < Limb ->
         LET h == Len(a) \div 2
             lo == MulDigits(SubSeq(a, 1, h), k, c)
             hi == MulDigits(SubSeq(a, h + 1, Len(a)), k, lo.c)
         IN  [d |-> lo.d \o hi.d, c |-> hi.c]

\* a * k + c for 0 < k <= Limb and c < Limb.
BigMulSmall(a, k, c) == WithCarry(MulDigits(a, k, c))

\* Digit by digit from the highest, a divided by k (0 < k <= Limb) with the
\* remainder r of the digits above: the digits of the quotient and the
\* remainder.
RECURSIVE DivDigits(_, _, _)
DivDigits(a, k, r) ==
    CASE Len(a) = 0 -> [d |-> <<>>, r |-> r]
      [] Len(a) = 1 ->
            [d |-> <<(r * Limb + a[1]) \div k>>, r |-> (r * Limb + a[1]) % k]
      [] Len(a) > 1 /\ r < k ->
         LET h == Len(a) \div 2
             hi == DivDigits(SubSeq(a, h + 1, Len(a)), k, r)
             lo == DivDigits(SubSeq(a, 1, h), k, hi.r)
         IN  [d |-> lo.d \o hi.d, r |-> lo.r]

\* The quotient of the digits p.d, and the remainder p.r.
WithRemainder(p) == [q |-> BigNorm(p.d), r |-> p.r]

\* a divided by k, 0 < k <= Limb: the quotient and the remainder.
BigDivSmall(a, k) == WithRemainder(DivDigits(a, k, 0))

\* The number of bits of n: 0 for 0.
RECURSIVE BitLen(_)
BitLen(n) == IF n = 0 THEN 0 ELSE 1 + BitLen(n \div 2)

BigBitLen(a) == IF a = <<>> THEN 0 ELSE 15 * (Len(a) - 1) + BitLen(a[Len(a)])

\* a * 2^n
BigShl(a, n) ==
    IF a = <<>> \/ n = 0 THEN a
    ELSE [i \in 1..(n \div 15) |-> 0] \o BigMulSmall(a, 2^(n % 15), 0)

\* a \div 2^n
BigShr(a, n) ==
    IF n = 0 THEN a
    ELSE IF n \div 15 >= Len(a) THEN <<>>
    ELSE BigDivSmall(SubSeq(a, n \div 15 + 1, Len(a)), 2^(n % 15)).q

\* The bit of weight 2^i of a.
BigBit(a, i) ==
    IF i < 0 \/ i \div 15 >= Len(a) THEN 0 ELSE (a[i \div 15 + 1] \div 2^(i % 15)) % 2

\* a is a multiple of 2^n.
BigLowZero(a, n) ==
    /\ \A i \in 1..(n \div 15) : i > Len(a) \/ a[i] = 0
    /\ (n \div 15 < Len(a) => a[n \div 15 + 1] % 2^(n % 15) = 0)

\* The number of zero bits that n (not 0) ends in.
RECURSIVE LowZeros(_)
LowZeros(n) == IF n % 2 = 1 THEN 0 ELSE 1 + LowZeros(n \div 2)

BigLowZeros(a) ==
    LET i == CHOOSE i \in 1..Len(a) : a[i] # 0 /\ \A j \in 1..(i - 1) : a[j] = 0
    IN  15 * (i - 1) + LowZeros(a[i])

\* ---- the numbers of JavaScript (IEEE 754 binary64)

\* A finite number is m * 2^e, negated if neg, with m odd and below 2^53
\* and e at least MinExponent, or m = 0 (<<>>) and e = 0; the other numbers
\* are the two infinities and NaN.  undefined, which arithmetic and toFloat
\* turn into NaN, is NaN here.
MantissaBits == 52 + 1
MinExponent == 0 - 1074
MaxBits == 2^10

Finite(neg, m, e) == [cls |-> "finite", neg |-> neg, m |-> m, e |-> e]
Infinite(neg) == [cls |-> "infinite", neg |-> neg, m |-> <<>>, e |-> 0]
NaN == [cls |-> "nan", neg |-> FALSE, m |-> <<>>, e |-> 0]
Zero == Finite(FALSE, <<>>, 0)

\* The number n * 2^x without its trailing zero bits; an infinity when it
\* is 2^MaxBits or more.
Pack(neg, n, x) ==
    IF n = <<>> THEN Finite(neg, <<>>, 0)
    ELSE IF x + BigBitLen(n) > MaxBits THEN Infinite(neg)
    ELSE LET z == BigLowZeros(n)
         IN  Finite(neg, BigShr(n, z), x + z)

\* n \div 2^drop is rounded up: the bits dropped (and what is known to
\* lie beyond n if sticky) are more than half of the last bit kept, or
\* half of it and the last bit kept is 1.
RoundsUp(n, drop, sticky) ==
    /\ BigBit(n, drop - 1) = 1
    /\ sticky \/ ~BigLowZero(n, drop - 1) \/ BigBit(n, drop) = 1

\* The number nearest to v * 2^x, ties going to the even mantissa, where v
\* is n if not sticky and lies strictly between n and n + 1 if sticky (n
\* then has more than MantissaBits + 1 bits, or v * 2^x is below the least
\* normal number).
RoundToDouble(neg, n, sticky, x) ==
    LET drop == Max2(0, Max2(BigBitLen(n) - MantissaBits, MinExponent - x))
    IN  Pack(neg,
             IF drop = 0 THEN n
             ELSE BigAdd(BigShr(n, drop), IF RoundsUp(n, drop, sticky) THEN <<1>> ELSE <<>>),
             x + drop)

\* The number nearest to the quotient of which d.q is the integer part,
\* scaled by 2^x; d.r is not 0 if the quotient is not an integer.
RoundQuotient(neg, d, x) == RoundToDouble(neg, d.q, d.r # 0, x)

\* The number of the integer n.
FromInt(n) == Pack(n < 0, BigOf(IF n < 0 THEN 0 - n ELSE n), 0)

\* The sum of am * 2^x, negated if aneg, and bm * 2^x, negated if bneg,
\* neither being 0.
AddAligned(aneg, am, bneg, bm, x) ==
    IF aneg # bneg /\ am = bm THEN Zero
    ELSE RoundToDouble(IF aneg = bneg \/ BigLess(bm, am) THEN aneg ELSE bneg,
                       IF aneg = bneg THEN BigAdd(am, bm)
                       ELSE IF BigLess(am, bm) THEN BigSub(bm, am)
                       ELSE BigSub(am, bm),
                       FALSE, x)

\* a + b
Add(a, b) ==
    IF a.cls = "nan" \/ b.cls = "nan" THEN NaN
    ELSE IF a.cls = "infinite"
    THEN IF b.cls = "infinite" /\ a.neg # b.neg THEN NaN ELSE a
    ELSE IF b.cls = "infinite" THEN b
    ELSE IF a.m = <<>> THEN (IF b.m = <<>> THEN Finite(a.neg /\ b.neg, <<>>, 0) ELSE b)
    ELSE IF b.m = <<>> THEN a
    ELSE LET x == IF a.e < b.e THEN a.e ELSE b.e
         IN  AddAligned(a.neg, BigShl(a.m, a.e - x), b.neg, BigShl(b.m, b.e - x), x)

\* -a
Negated(a) == IF a.cls = "nan" THEN NaN ELSE [a EXCEPT !.neg = ~a.neg]

\* a - b
Minus(a, b) == Add(a, Negated(b))

\* a === b
StrictlyEqual(a, b) ==
    /\ a.cls # "nan" /\ b.cls # "nan"
    /\ a = b \/ (a.cls = "finite" /\ b.cls = "finite" /\ a.m = <<>> /\ b.m = <<>>)

\* The next n digits to the base Limb of the quotient r / d for r < d, the
\* lowest first, and the remainder; a digit is computed at once if
\* d <= Limb and bit by bit otherwise (d < 2^30).
RECURSIVE QuotientBits(_, _, _, _)
QuotientBits(r, d, n, acc) ==
    IF n = 0 THEN [d |-> <<acc>>, r |-> r]
    ELSE QuotientBits((2 * r) % d, d, n - 1, 2 * acc + (2 * r) \div d)

RECURSIVE QuotientDigits(_, _, _)
QuotientDigits(r, d, n) ==
    CASE n = 0 -> [d |-> <<>>, r |-> r]
      [] n = 1 ->
            IF d <= Limb THEN [d |-> <<(r * Limb) \div d>>, r |-> (r * Limb) % d]
            ELSE QuotientBits(r, d, 15, 0)
      [] n > 1 /\ r < d ->
         LET h == n \div 2
             hi == QuotientDigits(r, d, n - h)
             lo == QuotientDigits(hi.r, d, h)
         IN  [d |-> lo.d \o hi.d, r |-> lo.r]

\* a / b for integers a and b, b not 0, both below 2^30 in magnitude: the
\* number nearest to the quotient, from its integer part and the 6 digits
\* (90 bits) after the point, which are more than MantissaBits + 2 bits
\* after the at most 30 zero bits the quotient begins with.
Quotient(a, b) ==
    LET neg == (a < 0) # (b < 0)
        n == IF a < 0 THEN 0 - a ELSE a
        d == IF b < 0 THEN 0 - b ELSE b
        frac == QuotientDigits(n % d, d, 6)
    IN  RoundToDouble(neg, BigNorm(frac.d \o BigOf(n \div d)), frac.r # 0, 0 - 15 * 6)

\* value * factor for a finite value and an integer factor, 0 < factor <=
\* Limb.
Times(value, factor) ==
    RoundToDouble(value.neg, BigMulSmall(value.m, factor, 0), FALSE, value.e)

\* Math.round of a number that is not NaN: the sign and the magnitude of
\* the integer nearest to it, a tie going up; an infinity stays one.
MathRound(v) ==
    IF v.cls # "finite" \/ v.e >= 0
    THEN [cls |-> v.cls, neg |-> v.neg, mag |-> BigShl(v.m, v.e)]
    ELSE LET sh == 0 - v.e
             half == BigBit(v.m, sh - 1) = 1
             rest == ~BigLowZero(v.m, sh - 1)
             up == half /\ (~v.neg \/ rest)
         IN  [cls |-> v.cls, neg |-> v.neg,
              mag |-> BigAdd(BigShr(v.m, sh), IF up THEN <<1>> ELSE <<>>)]

\* k / factor for k as Math.round gives it and an integer factor, 0 <
\* factor <= Limb: the quotient is taken to MantissaBits + 2 bits or more.
Over(k, factor) ==
    IF k.cls # "finite" THEN Infinite(k.neg)
    ELSE LET s == Max2(0, MantissaBits + 2 + BitLen(factor) - BigBitLen(k.mag))
         IN  RoundQuotient(k.neg, BigDivSmall(BigShl(k.mag, s), factor), 0 - s)

\* Math.round(value * factor) / factor with factor = 10^decimals, for
\* decimals of at most FloatDecimals: the number nearest to the product is
\* rounded to an integer, and the result is the number nearest to the
\* quotient.  NaN and the infinities come out as they are.
roundTo(value, decimals) ==
    IF value.cls # "finite" THEN value
    ELSE Over(MathRound(Times(value, Pow10(decimals))), Pow10(decimals))

\* The number as String and toFixed(1) print it: the two zeros print alike.
Unsigned(x) == IF x.cls = "finite" /\ x.m = <<>> THEN Zero ELSE x

\* The literal of a number, `${rounded}f` with rounded = roundTo(value,
\* FloatDecimals), is modelled by the number it prints: String and
\* toFixed(1) print two numbers alike only if they are the two zeros, which
\* both print as "0.0".  NaN prints as "NaNf".
toFloat(value) == Unsigned(roundTo(value, FloatDecimals))

\* The literal of k / Unit: Num(20000) is "2.0f", Num(712) is "0.0712f".
Num(k) == toFloat(Quotient(k, Unit))

\* The k of the literal Num(k), for k below 2^30 in magnitude.
LiteralUnits(x) ==
    LET k == MathRound(Times(x, Unit))
    IN  IF k.neg THEN 0 - BigValue(k.mag) ELSE BigValue(k.mag)

\* ------------------------------------------- codegen/path.ts: the parser

Digits == {"0", "1", "2", "3", "4", "5", "6", "7", "8", "9"}

DigitVal(c) ==
    CASE c = "0" -> 0 [] c = "1" -> 1 [] c = "2" -> 2 [] c = "3" -> 3
      [] c = "4" -> 4 [] c = "5" -> 5 [] c = "6" -> 6 [] c = "7" -> 7
      [] c = "8" -> 8 [] c = "9" -> 9

\* The command letters of the regular expression of parseSvgPath.
CmdLetters == {"M", "m", "L", "l", "H", "h", "V", "v", "C", "c", "Q", "q",
               "S", "s", "T", "t", "A", "a", "Z", "z"}

\* The length of the longest run of digits of s that starts at position p.
RECURSIVE DigitRun(_, _)
DigitRun(s, p) ==
    IF p <= Len(s) /\ s[p] \in Digits THEN 1 + DigitRun(s, p + 1) ELSE 0

\* \d*\.?\d+ matched at p with backtracking: the position after the match, 0 if
\* there is none.  A '.' that no digit follows is given back.
MantissaEnd(s, p) ==
    LET a == DigitRun(s, p)
        q == p + a
        b == IF q <= Len(s) /\ s[q] = "." THEN DigitRun(s, q + 1) ELSE 0
    IN  IF b > 0 THEN q + 1 + b ELSE IF a > 0 THEN q ELSE 0

\* (?:e[+-]?\d+)? matched at q, case-insensitively: the position after it.
ExponentEnd(s, q) ==
    IF q <= Len(s) /\ s[q] \in {"e", "E"}
    THEN LET r == IF q + 1 <= Len(s) /\ s[q + 1] \in {"+", "-"} THEN q + 2 ELSE q + 1
             n == DigitRun(s, r)
         IN  IF n > 0 THEN r + n ELSE q
    ELSE q

\* -?\d*\.?\d+(?:e[+-]?\d+)? matched at p: the position after the match, or 0.
NumberEnd(s, p) ==
    LET m == MantissaEnd(s, IF s[p] = "-" THEN p + 1 ELSE p)
    IN  IF m = 0 THEN 0 ELSE ExponentEnd(s, m)

\* a * 10^k
RECURSIVE BigTimesPow10(_, _)
BigTimesPow10(a, k) ==
    IF a = <<>> THEN <<>>
    ELSE IF k <= FloatDecimals THEN BigMulSmall(a, Pow10(k), 0)
    ELSE BigTimesPow10(BigTimesPow10(a, k \div 2), k - k \div 2)

\* a \div 10^k, and a remainder that is not 0 if what was dropped is not 0.
RECURSIVE BigOverPow10(_, _)
BigOverPow10(a, k) ==
    IF a = <<>> THEN [q |-> <<>>, r |-> 0]
    ELSE IF k <= FloatDecimals THEN BigDivSmall(a, Pow10(k))
    ELSE LET first == BigOverPow10(a, k \div 2)
             second == BigOverPow10(first.q, k - k \div 2)
         IN  [q |-> second.q, r |-> IF first.r = 0 THEN second.r ELSE 1]

\* The natural number of the decimal digits ds.
RECURSIVE BigDigits(_)
BigDigits(ds) ==
    IF ds = <<>> THEN <<>>
    ELSE IF Len(ds) = 1 THEN BigOf(DigitVal(ds[1]))
    ELSE LET h == Len(ds) \div 2
         IN  BigAdd(BigTimesPow10(BigDigits(SubSeq(ds, 1, h)), Len(ds) - h),
                    BigDigits(SubSeq(ds, h + 1, Len(ds))))

\* The value of the exponent digits s[p..p+n-1], or 99999 if it is more
\* than that.
RECURSIVE CappedValue(_, _, _, _)
CappedValue(s, p, n, acc) ==
    IF n = 0 THEN acc
    ELSE LET v == acc * 10 + DigitVal(s[p])
         IN  IF v > 99999 THEN 99999 ELSE CappedValue(s, p + 1, n - 1, v)

\* The first position of t that holds a character of cs, or 0.
Position(t, cs) ==
    LET at == { i \in DOMAIN t : t[i] \in cs }
    IN  IF at = {} THEN 0 ELSE CHOOSE i \in at : \A j \in at : i <= j

\* The number nearest to mant * 10^exp10, negated if neg.  A decimal of
\* 10^310 or more is an infinity and one below 10^-330 is 0 whatever its
\* digits are; a quotient is taken to MantissaBits + 2 bits or more.
Decimal(neg, mant, exp10) ==
    LET len == BigBitLen(mant)
        s == IF exp10 >= 0 THEN 0
             ELSE Max2(0, MantissaBits + 3 + 4 * (0 - exp10) - len)
    IN  IF mant = <<>> THEN Finite(neg, <<>>, 0)
        ELSE IF ((len - 1) * 3) \div 10 + exp10 > 310 THEN Infinite(neg)
        ELSE IF (len * 31) \div 100 + 1 + exp10 < 0 - 330 THEN Finite(neg, <<>>, 0)
        ELSE RoundQuotient(neg,
                           IF exp10 >= 0 THEN [q |-> BigTimesPow10(mant, exp10), r |-> 0]
                           ELSE BigOverPow10(BigShl(mant, s), 0 - exp10),
                           0 - s)

\* Number(token) for a token the regular expression matched, which is a
\* sign, digits with a point among them and an exponent, of which only a
\* digit is sure to be there: the number nearest to the decimal the token
\* writes.
ToNumber(t) ==
    LET neg == t[1] = "-"
        ex == Position(t, {"e", "E"})
        end == IF ex = 0 THEN Len(t) ELSE ex - 1
        dot == Position(t, {"."})
        int == SubSeq(t, IF neg THEN 2 ELSE 1, IF dot = 0 THEN end ELSE dot - 1)
        frac == IF dot = 0 THEN <<>> ELSE SubSeq(t, dot + 1, end)
        r == IF ex > 0 /\ t[ex + 1] \in {"+", "-"} THEN ex + 2 ELSE ex + 1
        e == IF ex = 0 THEN 0 ELSE CappedValue(t, r, Len(t) - r + 1, 0)
    IN  Decimal(neg, BigDigits(int \o frac),
                (IF ex > 0 /\ t[ex + 1] = "-" THEN 0 - e ELSE e) - Len(frac))

\* str.match(/-?\d*\.?\d+(?:e[+-]?\d+)?/gi).map(Number), scanning from p.
RECURSIVE ScanNumbers(_, _)
ScanNumbers(s, p) ==
    IF p > Len(s) THEN <<>>
    ELSE LET e == NumberEnd(s, p)
         IN  IF e = 0 THEN ScanNumbers(s, p + 1)
             ELSE <<ToNumber(SubSeq(s, p, e - 1))>> \o ScanNumbers(s, e)

parseNumbers(str) == IF str = <<>> THEN <<>> ELSE ScanNumbers(str, 1)

\* String.prototype.trim: white space goes from both ends.
RECURSIVE Trim(_)
Trim(s) ==
    IF s = <<>> THEN s
    ELSE IF Head(s) \in WhiteSpace THEN Trim(Tail(s))
    ELSE IF s[Len(s)] \in WhiteSpace THEN Trim(SubSeq(s, 1, Len(s) - 1))
    ELSE s

getExpectedArgCount(type) ==
    LET u == ToUpperCase(type)
    IN  CASE u \in {"M", "L", "T"} -> 2
          [] u \in {"H", "V"} -> 1
          [] u = "C" -> 6
          [] u \in {"S", "Q"} -> 4
          [] u = "A" -> 7
          [] OTHER -> 0

SvgCommand(type, args) == [type |-> type, args |-> args]

\* The operand run kept whole instead of split.
SplitArgsUnsplit(type, args, n) == <<SvgCommand(type, args)>>

\* The loop that splits an operand run: one command per slice(i, i + n).
RECURSIVE SplitArgs(_, _, _)
SplitArgs(type, args, n) ==
    IF args = <<>> THEN <<>>
    ELSE <<SvgCommand(type, SubSeq(args, 1, IF Len(args) < n THEN Len(args) ELSE n))>>
         \o SplitArgs(type, SubSeq(args, n + 1, Len(args)), n)

\* The commands of a letter and the numbers of its run.
RunCommands(type, args, expectedArgs) ==
    IF expectedArgs = 0 \/ Len(args) <= expectedArgs
    THEN <<SvgCommand(type, args)>>
    ELSE SplitArgs(type, args, expectedArgs)

\* The commands of one match of the regular expression: a letter and its run.
MatchCommands(type, argStr) ==
    IF type \in {"Z", "z"} THEN <<SvgCommand(type, <<>>)>>
    ELSE RunCommands(type, parseNumbers(Trim(argStr)), getExpectedArgCount(type))

\* The position of the first command letter of d at or after p (Len(d)+1: none).
RECURSIVE NextLetter(_, _)
NextLetter(d, p) ==
    IF p > Len(d) \/ d[p] \in CmdLetters THEN p ELSE NextLetter(d, p + 1)

\* The while loop over regex.exec, resumed at position p.
RECURSIVE ParseFrom(_, _)
ParseFrom(d, p) ==
    LET i == NextLetter(d, p)
    IN  IF i > Len(d) THEN <<>>
        ELSE LET j == NextLetter(d, i + 1)
             IN  MatchCommands(d[i], SubSeq(d, i + 1, j - 1)) \o ParseFrom(d, j)

parseSvgPath(d) == ParseFrom(d, 1)

\* --------------------------------------- codegen/path.ts: svgToJucePath

\* cmd.args[k], 0-based as in the source; a missing element is undefined,
\* which every use here turns into NaN.
Arg(cmd, k) == IF k + 1 <= Len(cmd.args) THEN cmd.args[k + 1] ELSE NaN

PathOp(op, args) == [op |-> op, args |-> args]

\* The line pushed for an operation: each coordinate is written by toFloat.
Emit(op, args) == PathOp(op, [k \in DOMAIN args |-> toFloat(args[k])])

\* What one iteration of the switch does: the operation it pushes with the
\* coordinates toFloat is to write (op is "" for a letter without a case,
\* which pushes nothing), and the cursor it leaves.
Pushed(op, args, x, y) == [op |-> op, args |-> args, x |-> x, y |-> y]

\* A move or a line to (x, y), where the cursor then is.
PointTo(op, x, y) == Pushed(op, <<x, y>>, x, y)

\* A curve by the control coordinates to (x, y), where the cursor then is.
CurveTo(op, controls, x, y) == Pushed(op, controls \o <<x, y>>, x, y)

\* SvgStep returning the cursor to the origin at a close.
SvgStepCloseResets(cmd, cx, cy) ==
    LET t == cmd.type
    IN  CASE t = "M" -> PointTo("startNewSubPath", Arg(cmd, 0), Arg(cmd, 1))
          [] t = "m" -> PointTo("startNewSubPath", Add(cx, Arg(cmd, 0)), Add(cy, Arg(cmd, 1)))
          [] t = "L" -> PointTo("lineTo", Arg(cmd, 0), Arg(cmd, 1))
          [] t = "l" -> PointTo("lineTo", Add(cx, Arg(cmd, 0)), Add(cy, Arg(cmd, 1)))
          [] t = "H" -> PointTo("lineTo", Arg(cmd, 0), cy)
          [] t = "h" -> PointTo("lineTo", Add(cx, Arg(cmd, 0)), cy)
          [] t = "V" -> PointTo("lineTo", cx, Arg(cmd, 0))
          [] t = "v" -> PointTo("lineTo", cx, Add(cy, Arg(cmd, 0)))
          [] t = "C" -> CurveTo("cubicTo",
                                <<Arg(cmd, 0), Arg(cmd, 1), Arg(cmd, 2), Arg(cmd, 3)>>,
                                Arg(cmd, 4), Arg(cmd, 5))
          [] t = "c" -> CurveTo("cubicTo",
                                <<Add(cx, Arg(cmd, 0)), Add(cy, Arg(cmd, 1)),
                                  Add(cx, Arg(cmd, 2)), Add(cy, Arg(cmd, 3))>>,
                                Add(cx, Arg(cmd, 4)), Add(cy, Arg(cmd, 5)))
          [] t = "Q" -> CurveTo("quadraticTo", <<Arg(cmd, 0), Arg(cmd, 1)>>,
                                Arg(cmd, 2), Arg(cmd, 3))
          [] t = "q" -> CurveTo("quadraticTo",
                                <<Add(cx, Arg(cmd, 0)), Add(cy, Arg(cmd, 1))>>,
                                Add(cx, Arg(cmd, 2)), Add(cy, Arg(cmd, 3)))
          [] t \in {"Z", "z"} -> Pushed("closeSubPath", <<>>, Zero, Zero)
          [] OTHER -> Pushed("", <<>>, cx, cy)

\* SvgStep with every letter taken for a line to the cursor.
SvgStepAlwaysLine(cmd, cx, cy) == PointTo("lineTo", cx, cy)

\* One iteration of the switch of svgToJucePath.
SvgStep(cmd, cx, cy) ==
    LET t == cmd.type
    IN  CASE t = "M" -> PointTo("startNewSubPath", Arg(cmd, 0), Arg(cmd, 1))
          [] t = "m" -> PointTo("startNewSubPath", Add(cx, Arg(cmd, 0)), Add(cy, Arg(cmd, 1)))
          [] t = "L" -> PointTo("lineTo", Arg(cmd, 0), Arg(cmd, 1))
          [] t = "l" -> PointTo("lineTo", Add(cx, Arg(cmd, 0)), Add(cy, Arg(cmd, 1)))
          [] t = "H" -> PointTo("lineTo", Arg(cmd, 0), cy)
          [] t = "h" -> PointTo("lineTo", Add(cx, Arg(cmd, 0)), cy)
          [] t = "V" -> PointTo("lineTo", cx, Arg(cmd, 0))
          [] t = "v" -> PointTo("lineTo", cx, Add(cy, Arg(cmd, 0)))
          [] t = "C" -> CurveTo("cubicTo",
                                <<Arg(cmd, 0), Arg(cmd, 1), Arg(cmd, 2), Arg(cmd, 3)>>,
                                Arg(cmd, 4), Arg(cmd, 5))
          [] t = "c" -> CurveTo("cubicTo",
                                <<Add(cx, Arg(cmd, 0)), Add(cy, Arg(cmd, 1)),
                                  Add(cx, Arg(cmd, 2)), Add(cy, Arg(cmd, 3))>>,
                                Add(cx, Arg(cmd, 4)), Add(cy, Arg(cmd, 5)))
          [] t = "Q" -> CurveTo("quadraticTo", <<Arg(cmd, 0), Arg(cmd, 1)>>,
                                Arg(cmd, 2), Arg(cmd, 3))
          [] t = "q" -> CurveTo("quadraticTo",
                                <<Add(cx, Arg(cmd, 0)), Add(cy, Arg(cmd, 1))>>,
                                Add(cx, Arg(cmd, 2)), Add(cy, Arg(cmd, 3)))
          [] t \in {"Z", "z"} -> Pushed("closeSubPath", <<>>, cx, cy)
          [] OTHER -> Pushed("", <<>>, cx, cy)

\* The loop over the commands: the lines pushed from the cursor (cx, cy) on.
RECURSIVE SvgWalk(_, _, _)
RECURSIVE PushAndWalk(_, _)
SvgWalk(cmds, cx, cy) ==
    IF cmds = <<>> THEN <<>> ELSE PushAndWalk(SvgStep(Head(cmds), cx, cy), Tail(cmds))

\* The line of the step st, then the lines of the commands after it.
PushAndWalk(st, cmds) ==
    (IF st.op = "" THEN <<>> ELSE <<Emit(st.op, st.args)>>) \o SvgWalk(cmds, st.x, st.y)

\* The juce::Path calls for one IRPathData, the cursor starting at (0, 0).
svgToJucePath(pathData) == SvgWalk(parseSvgPath(pathData.path), Zero, Zero)

\* ------------------------------------------------------ ir/types.ts guards

isIRFrameNode(node) == node.type \in {"frame", "component", "instance"}
isIRGroupNode(node) == node.type = "group"
isIRRectangleNode(node) == node.type = "rectangle"
isIREllipseNode(node) == node.type = "ellipse"
isIRTextNode(node) == node.type = "text"
isIRVectorNode(node) == node.type \in {"vector", "line", "booleanOperation"}
hasIRChildren(node) == isIRFrameNode(node) \/ isIRGroupNode(node)

\* ------------------------------------------------ generated lines of C++

\* A line before it is attributed: the call it makes and its salient operands.
Ln(op, arg) == [op |-> op, arg |-> arg]

\* The lines of one step of one node: `part` names the step, idx the entry.
Tag(lines, node, part, idx) ==
    [k \in 1..Len(lines) |->
        [op |-> lines[k].op, arg |-> lines[k].arg, node |-> node, part |-> part, idx |-> idx]]

\* ------------------------------------------------------ codegen/colour.ts

GradientLines(fill, boundsVar, radial) ==
    IF Len(fill.stops) < 2 THEN <<>>
    ELSE <<Ln("juce::ColourGradient gradient", <<boundsVar, radial>>),
           Ln("gradient end colour", <<boundsVar>>)>>
         \o [i \in 1..(Len(fill.stops) - 2) |-> Ln("gradient.addColour", <<fill.stops[i + 1]>>)]
         \o (IF fill.opacity < 100 THEN <<Ln("gradient.multiplyOpacity", <<fill.opacity>>)>>
             ELSE <<>>)
         \o <<Ln("g.setGradientFill", <<>>)>>

generateImageFillCode(fill, boundsVar) ==
    <<Ln("if (image.isValid())", <<fill.imageRef>>), Ln("{", <<>>)>>
    \o (IF fill.opacity < 100 THEN <<Ln("g.setOpacity", <<fill.opacity>>)>> ELSE <<>>)
    \o (CASE fill.scaleMode = CodeUnitsOf(<<"f", "i", "l", "l">>) ->
               <<Ln("g.drawImage", <<fill.imageRef, boundsVar>>), Ln("stretchToFit", <<>>)>>
          [] fill.scaleMode = CodeUnitsOf(<<"f", "i", "t">>) ->
               <<Ln("g.drawImage", <<fill.imageRef, boundsVar>>), Ln("centred", <<>>)>>
          [] fill.scaleMode = CodeUnitsOf(<<"c", "r", "o", "p">>) ->
               <<Ln("g.drawImage", <<fill.imageRef, boundsVar>>), Ln("fillDestination", <<>>)>>
          [] fill.scaleMode = CodeUnitsOf(<<"t", "i", "l", "e">>) ->
               <<Ln("auto tileW", <<fill.imageRef>>), Ln("auto tileH", <<fill.imageRef>>),
                 Ln("for y", <<boundsVar>>), Ln("{", <<>>),
                 Ln("for x", <<boundsVar>>), Ln("{", <<>>),
                 Ln("g.drawImageAt", <<fill.imageRef>>), Ln("}", <<>>), Ln("}", <<>>)>>
          [] OTHER -> <<>>)
    \o (IF fill.opacity < 100 THEN <<Ln("g.setOpacity", <<100>>)>> ELSE <<>>)
    \o <<Ln("}", <<>>)>>

\* The lines of the returned string; the empty string is <<>>.
generateFillCode(fill, boundsVar) ==
    IF ~fill.visible THEN <<>>
    ELSE CASE fill.type = "solid" -> <<Ln("g.setColour", <<fill.opacity>>)>>
           [] fill.type = "linearGradient" -> GradientLines(fill, boundsVar, FALSE)
           [] fill.type = "radialGradient" -> GradientLines(fill, boundsVar, TRUE)
           [] fill.type = "image" -> generateImageFillCode(fill, boundsVar)
           [] OTHER -> <<>>

\* -------------------------------------- codegen/path.ts: generatePathDraw

PathFillLines(node, boundsExpr, i) ==
    LET fill == node.fills[i]
        fillCode == generateFillCode(fill, boundsExpr)
    IN  IF ~fill.visible \/ fillCode = <<>> THEN <<>>
        ELSE fillCode \o <<Ln("g.fillPath", <<>>)>>

PathStrokeLines(node, i) ==
    IF ~node.strokes[i].visible THEN <<>>
    ELSE <<Ln("g.setColour", <<node.strokes[i].opacity>>),
           Ln("g.strokePath", <<node.strokes[i].weight>>)>>

PathBlock(node, boundsExpr, i) ==
    <<Ln("{", <<>>), Ln("juce::Path", <<>>)>>
    \o (LET pathOps == svgToJucePath(node.paths[i])
        IN  [k \in 1..Len(pathOps) |-> Ln(pathOps[k].op, pathOps[k].args)])
    \o (IF node.paths[i].windingRule = "evenodd"
        THEN <<Ln("setUsingNonZeroWinding", <<FALSE>>)>> ELSE <<>>)
    \o Flatten([f \in 1..Len(node.fills) |-> PathFillLines(node, boundsExpr, f)])
    \o Flatten([t \in 1..Len(node.strokes) |-> PathStrokeLines(node, t)])
    \o <<Ln("}", <<>>)>>

generatePathDraw(node, boundsExpr) ==
    Flatten([i \in 1..Len(node.paths) |-> Tag(PathBlock(node, boundsExpr, i), node.id, "path", i)])

\* ------------------------------------- codegen/text.ts: generateTextDraw

generateTextDraw(node, boundsExpr) ==
    Tag(<<Ln("g.setFont", <<>>), Ln("g.setColour", <<>>),
          IF node.autoResize \in {"truncate", "none"}
          THEN Ln("g.drawFittedText", <<boundsExpr>>)
          ELSE Ln("g.drawText", <<boundsExpr>>)>>,
        node.id, "text", 1)

\* ------------------------------------------------------ codegen/paint.ts

nodeBoundsExpr(node) ==
    <<"juce::Rectangle<float>", node.relativeX, node.relativeY,
      node.bounds.width, node.bounds.height>>

hasRounding(cr) ==
    cr.topLeft > 0 \/ cr.topRight > 0 \/ cr.bottomRight > 0 \/ cr.bottomLeft > 0

perCornerRoundedRectTopLeft(boundsExpr, cr) ==
    <<Ln("{", <<>>),
      Ln("auto rc", <<boundsExpr>>),
      Ln("juce::Path p", <<>>),
      Ln("p.addRoundedRectangle", <<>>),
      Ln("corner size", <<cr.topLeft, cr.topLeft>>),
      Ln("top corners", <<TRUE, TRUE>>),
      Ln("bottom corners", <<TRUE, TRUE>>),
      Ln("g.fillPath", <<>>),
      Ln("}", <<>>)>>

perCornerRoundedRect(boundsExpr, cr) ==
    LET maxR == Max2(Max2(cr.topLeft, cr.topRight), Max2(cr.bottomLeft, cr.bottomRight))
        allSame == cr.topLeft = cr.topRight /\ cr.topRight = cr.bottomLeft
                   /\ cr.bottomLeft = cr.bottomRight
    IN  IF allSame
           \/ (cr.topLeft > 0 /\ cr.topRight > 0 /\ cr.bottomLeft > 0 /\ cr.bottomRight > 0
               /\ cr.topLeft = cr.topRight /\ cr.bottomLeft = cr.bottomRight
               /\ cr.topLeft = cr.bottomLeft)
        THEN <<Ln("g.fillRoundedRectangle", <<boundsExpr, cr.topLeft>>)>>
        ELSE <<Ln("{", <<>>),
               Ln("auto rc", <<boundsExpr>>),
               Ln("juce::Path p", <<>>),
               Ln("p.addRoundedRectangle", <<>>),
               Ln("corner size", <<maxR, maxR>>),
               Ln("top corners", <<cr.topLeft > 0, cr.topRight > 0>>),
               Ln("bottom corners", <<cr.bottomLeft > 0, cr.bottomRight > 0>>),
               Ln("g.fillPath", <<>>),
               Ln("}", <<>>)>>

RectFillLines(node, boundsExpr, i) ==
    LET fill == node.fills[i]
        fillCode == generateFillCode(fill, boundsExpr)
        cr == node.cornerRadius
    IN  IF ~fill.visible \/ fillCode = <<>> THEN <<>>
        ELSE fillCode
             \o (IF hasRounding(cr)
                 THEN IF cr.isUniform
                      THEN <<Ln("g.fillRoundedRectangle", <<boundsExpr, cr.topLeft>>)>>
                      ELSE perCornerRoundedRect(boundsExpr, cr)
                 ELSE <<Ln("g.fillRect", <<boundsExpr>>)>>)

generateRectPaint(node, boundsExpr) ==
    Flatten([i \in 1..Len(node.fills) |->
                Tag(RectFillLines(node, boundsExpr, i), node.id, "fill", i)])

EllipseFillLines(node, boundsExpr, i) ==
    LET fill == node.fills[i]
        fillCode == generateFillCode(fill, boundsExpr)
    IN  IF ~fill.visible \/ fillCode = <<>> THEN <<>>
        ELSE fillCode \o <<Ln("g.fillEllipse", <<boundsExpr>>)>>

generateEllipsePaint(node, boundsExpr) ==
    Flatten([i \in 1..Len(node.fills) |->
                Tag(EllipseFillLines(node, boundsExpr, i), node.id, "fill", i)])

DropShadowLines(node, i) ==
    LET effect == node.effects[i]
    IN  IF effect.type # "dropShadow" \/ ~effect.visible THEN <<>>
        ELSE <<Ln("{", <<>>),
               Ln("juce::DropShadow shadow",
                  <<effect.radius, RoundDiv(effect.offset.x, PxScale), RoundDiv(effect.offset.y, PxScale)>>),
               Ln("shadow.drawForRectangle", <<nodeBoundsExpr(node)>>),
               Ln("}", <<>>)>>

generateDropShadows(node) ==
    Flatten([i \in 1..Len(node.effects) |-> Tag(DropShadowLines(node, i), node.id, "shadow", i)])

\* InnerShadowLines without the restoreState that closes its saved state.
InnerShadowLinesUnrestored(node, boundsExpr, i) ==
    LET effect == node.effects[i]
    IN  IF effect.type # "innerShadow" \/ ~effect.visible THEN <<>>
        ELSE <<Ln("{", <<>>),
               Ln("g.saveState", <<>>),
               Ln("g.reduceClipRegion", <<boundsExpr>>),
               Ln("innerShadow.drawForRectangle", <<>>),
               Ln("}", <<>>)>>

\* Math.round(shadow.radius + Math.abs(shadow.offset.x) + Math.abs(shadow.offset.y)),
\* the radius in pixels and the offset in units of 1/PxScale pixel.
OuterExpansion(shadow) ==
    RoundDiv(shadow.radius * PxScale + Abs(shadow.offset.x) + Abs(shadow.offset.y), PxScale)

InnerShadowLines(node, boundsExpr, i) ==
    LET effect == node.effects[i]
    IN  IF effect.type # "innerShadow" \/ ~effect.visible THEN <<>>
        ELSE <<Ln("{", <<>>),
               Ln("// Inner shadow",
                  <<RoundDiv(effect.offset.x, PxScale), RoundDiv(effect.offset.y, PxScale), effect.radius>>),
               Ln("g.saveState", <<>>),
               Ln("g.reduceClipRegion", <<boundsExpr>>),
               Ln("juce::DropShadow innerShadow",
                  <<effect.radius, RoundDiv(effect.offset.x, PxScale), RoundDiv(effect.offset.y, PxScale)>>),
               Ln("// Draw shadow around an inverted region", <<>>),
               Ln("auto outerRect", <<boundsExpr, OuterExpansion(effect)>>),
               Ln("innerShadow.drawForRectangle", <<>>),
               Ln("g.restoreState", <<>>),
               Ln("}", <<>>)>>

generateInnerShadows(node, boundsExpr) ==
    Flatten([i \in 1..Len(node.effects) |->
                Tag(InnerShadowLines(node, boundsExpr, i), node.id, "innerShadow", i)])

BlurLines(node, i) ==
    LET effect == node.effects[i]
    IN  IF (effect.type # "layerBlur" /\ effect.type # "backgroundBlur") \/ ~effect.visible
        THEN <<>>
        ELSE <<Ln("// blur", <<effect.type, effect.radius>>),
               Ln("// Implement via juce::ImageConvolutionKernel", <<>>)>>

generateBlurEffects(node) ==
    Flatten([i \in 1..Len(node.effects) |-> Tag(BlurLines(node, i), node.id, "blur", i)])

StrokeLines(node, boundsExpr, i) ==
    LET stroke == node.strokes[i]
    IN  IF ~stroke.visible THEN <<>>
        ELSE <<Ln("g.setColour", <<stroke.opacity>>),
               IF isIREllipseNode(node)
               THEN Ln("g.drawEllipse", <<boundsExpr, stroke.weight>>)
               ELSE IF (isIRRectangleNode(node) \/ isIRFrameNode(node))
                       /\ hasRounding(node.cornerRadius)
               THEN Ln("g.drawRoundedRectangle",
                       <<boundsExpr, node.cornerRadius.topLeft, stroke.weight>>)
               ELSE Ln("g.drawRect", <<boundsExpr, stroke.weight>>)>>

generateStrokes(node, boundsExpr) ==
    Flatten([i \in 1..Len(node.strokes) |->
                Tag(StrokeLines(node, boundsExpr, i), node.id, "stroke", i)])

generateNodePaint(node, boundsExpr) ==
    IF isIRRectangleNode(node) \/ isIRFrameNode(node) THEN generateRectPaint(node, boundsExpr)
    ELSE IF isIREllipseNode(node) THEN generateEllipsePaint(node, boundsExpr)
    ELSE IF isIRTextNode(node) THEN generateTextDraw(node, boundsExpr)
    ELSE IF isIRVectorNode(node) THEN generatePathDraw(node, boundsExpr)
    ELSE <<>>

\* generateChildPaint closing the opacity scope of a node before its children.
RECURSIVE generateChildPaintEarlyRestore(_)
generateChildPaintEarlyRestore(node) ==
    IF ~node.visible THEN <<>>
    ELSE LET boundsExpr == nodeBoundsExpr(node)
             needsOpacity == node.opacity < 100
         IN  (IF needsOpacity
              THEN Tag(<<Ln("g.saveState", <<>>),
                         Ln("g.reduceClipRegion", <<boundsExpr>>),
                         Ln("g.setOpacity", <<node.opacity>>)>>, node.id, "opacity", 1)
              ELSE <<>>)
             \o generateDropShadows(node)
             \o generateNodePaint(node, boundsExpr)
             \o generateInnerShadows(node, boundsExpr)
             \o generateBlurEffects(node)
             \o generateStrokes(node, boundsExpr)
             \o (IF needsOpacity
                 THEN Tag(<<Ln("g.restoreState", <<>>)>>, node.id, "opacity", 2)
                 ELSE <<>>)
             \o (IF isIRFrameNode(node) \/ isIRGroupNode(node)
                 THEN Flatten([i \in 1..Len(node.children) |->
                                  generateChildPaintEarlyRestore(node.children[i])])
                 ELSE <<>>)

\* generateChildPaint drawing the outline of a node before its fills.
RECURSIVE generateChildPaintStrokesFirst(_)
generateChildPaintStrokesFirst(node) ==
    IF ~node.visible THEN <<>>
    ELSE LET boundsExpr == nodeBoundsExpr(node)
             needsOpacity == node.opacity < 100
         IN  (IF needsOpacity
              THEN Tag(<<Ln("g.saveState", <<>>),
                         Ln("g.reduceClipRegion", <<boundsExpr>>),
                         Ln("g.setOpacity", <<node.opacity>>)>>, node.id, "opacity", 1)
              ELSE <<>>)
             \o generateDropShadows(node)
             \o generateStrokes(node, boundsExpr)
             \o generateNodePaint(node, boundsExpr)
             \o generateInnerShadows(node, boundsExpr)
             \o generateBlurEffects(node)
             \o (IF isIRFrameNode(node) \/ isIRGroupNode(node)
                 THEN Flatten([i \in 1..Len(node.children) |->
                                  generateChildPaintStrokesFirst(node.children[i])])
                 ELSE <<>>)
             \o (IF needsOpacity
                 THEN Tag(<<Ln("g.restoreState", <<>>)>>, node.id, "opacity", 2)
                 ELSE <<>>)

RECURSIVE generateChildPaint(_)
generateChildPaint(node) ==
    IF ~node.visible THEN <<>>
    ELSE LET boundsExpr == nodeBoundsExpr(node)
             needsOpacity == node.opacity < 100
         IN  (IF needsOpacity
              THEN Tag(<<Ln("g.saveState", <<>>),
                         Ln("g.reduceClipRegion", <<boundsExpr>>),
                         Ln("g.setOpacity", <<node.opacity>>)>>, node.id, "opacity", 1)
              ELSE <<>>)
             \o generateDropShadows(node)
             \o generateNodePaint(node, boundsExpr)
             \o generateInnerShadows(node, boundsExpr)
             \o generateBlurEffects(node)
             \o generateStrokes(node, boundsExpr)
             \o (IF isIRFrameNode(node) \/ isIRGroupNode(node)
                 THEN Flatten([i \in 1..Len(node.children) |->
                                  generateChildPaint(node.children[i])])
                 ELSE <<>>)
             \o (IF needsOpacity
                 THEN Tag(<<Ln("g.restoreState", <<>>)>>, node.id, "opacity", 2)
                 ELSE <<>>)

\* generatePaintBody declares one parameter: the list of promoted node ids that
\* generateComponent passes as a second argument is not received.
generatePaintBody(root) ==
    generateNodePaint(root, <<"getLocalBounds().toFloat()">>)
    \o Flatten([i \in 1..Len(root.children) |-> generateChildPaint(root.children[i])])

\* ------------------------------------------------------ utils/naming.ts

\* The characters the class [\s_-] of toClassName splits on.
IsNameSeparator(c) == c \in WhiteSpace \cup {"_", "-"}

\* name.replace(/[^a-zA-Z0-9\s_-]/g, "")
RECURSIVE CleanName(_)
CleanName(name) ==
    IF name = <<>> THEN <<>>
    ELSE IF IsLetter(Head(name)) \/ Head(name) \in Digits \/ IsNameSeparator(Head(name))
    THEN <<Head(name)>> \o CleanName(Tail(name))
    ELSE CleanName(Tail(name))

\* cleaned.split(/[\s_-]+/).filter(Boolean).map(capitalise).join(""): atStart
\* tells that the next character begins a word.
RECURSIVE Pascal(_, _)
Pascal(s, atStart) ==
    IF s = <<>> THEN <<>>
    ELSE IF IsNameSeparator(Head(s)) THEN Pascal(Tail(s), TRUE)
    ELSE <<IF atStart THEN ToUpperCase(Head(s)) ELSE Head(s)>> \o Pascal(Tail(s), FALSE)

toClassName(name) ==
    LET cleaned == Trim(CleanName(name))
        pascal == Pascal(cleaned, TRUE)
    IN  IF cleaned = <<>> THEN <<"U", "n", "n", "a", "m", "e", "d", "C", "o", "m", "p", "o", "n", "e", "n", "t">>
        ELSE IF pascal # <<>> /\ pascal[1] \in Digits THEN <<"C">> \o pascal
        ELSE pascal

toVariableName(name) ==
    LET className == toClassName(name)
    IN  IF className = <<>> THEN <<>>
        ELSE <<ToLowerCase(className[1])>> \o Tail(className)

\* ------------------------------------------- codegen/component-hints.ts

\* The keywords of RULES, in rule order.
HintKeywords ==
    <<<<"k", "n", "o", "b">>,
      <<"d", "i", "a", "l">>,
      <<"r", "o", "t", "a", "r", "y">>,
      <<"s", "l", "i", "d", "e", "r">>,
      <<"f", "a", "d", "e", "r">>,
      <<"t", "o", "g", "g", "l", "e">>,
      <<"b", "y", "p", "a", "s", "s">>,
      <<"s", "w", "i", "t", "c", "h">>,
      <<"t", "e", "x", "t", "b", "u", "t", "t", "o", "n">>,
      <<"b", "t", "n">>,
      <<"b", "u", "t", "t", "o", "n">>,
      <<"l", "a", "b", "e", "l">>,
      <<"t", "i", "t", "l", "e">>,
      <<"c", "o", "m", "b", "o">>,
      <<"d", "r", "o", "p", "d", "o", "w", "n">>,
      <<"s", "e", "l", "e", "c", "t">>,
      <<"m", "e", "n", "u">>>>

\* The word boundaries B and E of the rules: the start or end of the name, or
\* one of [\s_\-/].
IsHintBoundary(c) == c \in WhiteSpace \cup {"_", "-", "/"}

\* A character of the name against a letter of a keyword under the flag "i"
\* of a pattern without the flag "u": both are canonicalized by their upper
\* case, and a character beyond U+007F whose upper case is an ASCII letter
\* keeps itself, so a letter a-z matches itself and its capital only.
MatchesIgnoreCase(c, letter) ==
    \E i \in 1..26 : LowerAlpha[i] = letter /\ c \in {LowerAlpha[i], UpperAlpha[i]}

\* new RegExp(B + keyword + E, "i").test(nodeName)
HintMatches(keyword, nodeName) ==
    \E p \in 1..(Len(nodeName) - Len(keyword) + 1) :
        /\ \A k \in 1..Len(keyword) : MatchesIgnoreCase(nodeName[p + k - 1], keyword[k])
        /\ (p = 1 \/ IsHintBoundary(nodeName[p - 1]))
        /\ (p + Len(keyword) - 1 = Len(nodeName) \/ IsHintBoundary(nodeName[p + Len(keyword)]))

\* The index of the first rule that matches, 0 for null.
detectComponentHint(nodeName) ==
    IF \E r \in 1..Len(HintKeywords) : HintMatches(HintKeywords[r], nodeName)
    THEN CHOOSE r \in 1..Len(HintKeywords) :
            /\ HintMatches(HintKeywords[r], nodeName)
            /\ \A q \in 1..(r - 1) : ~HintMatches(HintKeywords[q], nodeName)
    ELSE 0

\* ---------------------------------------------------- codegen/resized.ts

\* toInt(value): the integer literal, in pixels.
toInt(value) == RoundDiv(value, PxScale)

\* An emitted expression: its form over the parent bounds and the literals
\* written into it, the integers a and b or the proportion prop.
BoundsExpr(form, a, b) == [form |-> form, a |-> a, b |-> b, prop |-> Zero]
ScaleExpr(form, prop) == [form |-> form, a |-> 0, b |-> 0, prop |-> prop]

generateHorizontalConstraintLeading(constraint, relX, width, parentW) ==
    BoundsExpr("getX() + a", toInt(relX), 0)

generateHorizontalConstraint(constraint, relX, width, parentW) ==
    CASE constraint = "left" -> BoundsExpr("getX() + a", toInt(relX), 0)
      [] constraint = "right" ->
            LET rightMargin == parentW - relX - width
            IN  BoundsExpr("getRight() - a - b", toInt(rightMargin), toInt(width))
      [] constraint = "center" ->
            \* centerOffset = relX + width / 2 - parentW / 2
            BoundsExpr("getCentreX() + a - b / 2",
                       RoundDiv(2 * relX + width - parentW, 2 * PxScale), toInt(width))
      [] constraint = "leftRight" -> BoundsExpr("getX() + a", toInt(relX), 0)
      [] constraint = "scale" ->
            LET prop == toFloat(IF parentW > 0 THEN Quotient(relX, parentW) ELSE Zero)
            IN  ScaleExpr("getX() + (int)(getWidth() * prop)", prop)

generateVerticalConstraint(constraint, relY, height, parentH) ==
    CASE constraint = "top" -> BoundsExpr("getY() + a", toInt(relY), 0)
      [] constraint = "bottom" ->
            LET bottomMargin == parentH - relY - height
            IN  BoundsExpr("getBottom() - a - b", toInt(bottomMargin), toInt(height))
      [] constraint = "center" ->
            BoundsExpr("getCentreY() + a - b / 2",
                       RoundDiv(2 * relY + height - parentH, 2 * PxScale), toInt(height))
      [] constraint = "topBottom" -> BoundsExpr("getY() + a", toInt(relY), 0)
      [] constraint = "scale" ->
            LET prop == toFloat(IF parentH > 0 THEN Quotient(relY, parentH) ELSE Zero)
            IN  ScaleExpr("getY() + (int)(getHeight() * prop)", prop)

generateWidthConstraint(constraint, relX, width, parentW) ==
    CASE constraint = "leftRight" ->
            LET rightMargin == parentW - relX - width
            IN  BoundsExpr("getWidth() - a - b", toInt(relX), toInt(rightMargin))
      [] constraint = "scale" ->
            LET prop == toFloat(IF parentW > 0 THEN Quotient(width, parentW) ELSE Zero)
            IN  ScaleExpr("(int)(getWidth() * prop)", prop)
      [] OTHER -> BoundsExpr("a", toInt(width), 0)

generateHeightConstraint(constraint, relY, height, parentH) ==
    CASE constraint = "topBottom" ->
            LET bottomMargin == parentH - relY - height
            IN  BoundsExpr("getHeight() - a - b", toInt(relY), toInt(bottomMargin))
      [] constraint = "scale" ->
            LET prop == toFloat(IF parentH > 0 THEN Quotient(height, parentH) ELSE Zero)
            IN  ScaleExpr("(int)(getHeight() * prop)", prop)
      [] OTHER -> BoundsExpr("a", toInt(height), 0)

\* generateConstrainedBounds: the x, y, width and height expressions of the
\* juce::Rectangle<int> the line declares.
ConstrainedBoundsLine(child, parentW, parentH) ==
    LET c == child.constraints[1]
        b == child.bounds
    IN  Ln("auto Bounds = juce::Rectangle<int>",
           <<toVariableName(child.name),
             generateHorizontalConstraint(c.horizontal, child.relativeX, b.width, parentW),
             generateVerticalConstraint(c.vertical, child.relativeY, b.height, parentH),
             generateWidthConstraint(c.horizontal, child.relativeX, b.width, parentW),
             generateHeightConstraint(c.vertical, child.relativeY, b.height, parentH)>>)

ProportionalBoundsLineTruncated(child, parentW, parentH) ==
    Ln("auto Bounds = getProportion",
       <<toVariableName(child.name),
         Num(IF parentW > 0 THEN (child.relativeX * Unit) \div parentW ELSE 0),
         Num(IF parentH > 0 THEN (child.relativeY * Unit) \div parentH ELSE 0),
         Num(IF parentW > 0 THEN (child.bounds.width * Unit) \div parentW ELSE 0),
         Num(IF parentH > 0 THEN (child.bounds.height * Unit) \div parentH ELSE 0)>>)

ProportionalBoundsLine(child, parentW, parentH) ==
    LET b == child.bounds
        xProp == IF parentW > 0 THEN Quotient(child.relativeX, parentW) ELSE Zero
        yProp == IF parentH > 0 THEN Quotient(child.relativeY, parentH) ELSE Zero
        wProp == IF parentW > 0 THEN Quotient(b.width, parentW) ELSE Zero
        hProp == IF parentH > 0 THEN Quotient(b.height, parentH) ELSE Zero
    IN  Ln("auto Bounds = getProportion",
           <<toVariableName(child.name),
             toFloat(xProp), toFloat(yProp), toFloat(wProp), toFloat(hProp)>>)

\* The lines one iteration of the loop of generateAbsoluteLayout pushes.
AbsoluteChildLines(child, parentW, parentH) ==
    IF ~child.visible THEN <<>>
    ELSE <<Ln("// name", <<child.name>>),
           IF child.constraints # <<>>
           THEN ConstrainedBoundsLine(child, parentW, parentH)
           ELSE ProportionalBoundsLine(child, parentW, parentH)>>
         \o (IF detectComponentHint(child.name) # 0
             THEN <<Ln("setBounds", <<toVariableName(child.name)>>)>>
             ELSE <<>>)

generateAbsoluteLayout(children, parentW, parentH) ==
    Flatten([i \in 1..Len(children) |->
                Tag(AbsoluteChildLines(children[i], parentW, parentH),
                    children[i].id, "absolute", i)])

\* frame.children.filter(c => c.visible)
VisibleChildren(frame) == SelectSeq(frame.children, LAMBDA c : c.visible)

\* The FlexItem expression of the i-th visible child: its size and the
\* modifiers chained to it.  No item names a member of the component.
FlexItemLine(al, child, i) ==
    Ln("fb.items.add",
       [w |-> child.bounds.width, h |-> child.bounds.height,
        withFlex |-> IF child.layoutGrow > 0 THEN <<child.layoutGrow>> ELSE <<>>,
        alignSelfStretch |-> child.layoutAlign = "stretch",
        margin |-> IF al.itemSpacing > 0 /\ i > 1
                   THEN IF al.mode = "horizontal"
                        THEN <<0, 0, 0, al.itemSpacing>>
                        ELSE <<al.itemSpacing, 0, 0, 0>>
                   ELSE <<>>,
        member |-> <<>>])

PerformLayoutLineAlwaysReduced(al) ==
    Ln("fb.performLayout reduced",
       <<toInt(al.paddingLeft), toInt(al.paddingTop), toInt(al.paddingRight),
         toInt(al.paddingBottom)>>)

\* The closing performLayout call, against bounds.reduced(padL, padT, padR,
\* padB) or against bounds.
PerformLayoutLine(al) ==
    LET padT == al.paddingTop
        padR == al.paddingRight
        padB == al.paddingBottom
        padL == al.paddingLeft
    IN  IF padT > 0 \/ padR > 0 \/ padB > 0 \/ padL > 0
        THEN Ln("fb.performLayout reduced",
                <<toInt(padL), toInt(padT), toInt(padR), toInt(padB)>>)
        ELSE Ln("fb.performLayout", <<>>)

generateFlexBoxLayout(frame) ==
    LET al == frame.autoLayout[1]
        visibleChildren == VisibleChildren(frame)
    IN  Tag(<<Ln("juce::FlexBox fb", <<>>),
              Ln("fb.flexDirection", <<al.mode>>),
              Ln("fb.justifyContent", <<al.primaryAxisAlign>>),
              Ln("fb.alignItems", <<al.counterAxisAlign>>)>>
            \o (IF al.wrap THEN <<Ln("fb.flexWrap", <<>>)>> ELSE <<>>),
            frame.id, "flex", 0)
        \o Flatten([i \in 1..Len(visibleChildren) |->
                       Tag(<<FlexItemLine(al, visibleChildren[i], i)>>,
                           visibleChildren[i].id, "flex", i)])
        \o Tag(<<PerformLayoutLine(al)>>, frame.id, "flex", 0)

\* generateResizedBody placing the children of an auto-layout frame one by
\* one as well.
generateResizedBodyBoth(root) ==
    Tag(<<Ln("auto bounds = getLocalBounds()", <<>>)>>, root.id, "bounds", 0)
    \o (IF root.autoLayout # <<>> THEN generateFlexBoxLayout(root) ELSE <<>>)
    \o generateAbsoluteLayout(root.children, root.bounds.width, root.bounds.height)

\* generateResizedBody declares one parameter: the nested-component list that
\* generateComponent passes as a second argument is not received.
generateResizedBody(root) ==
    Tag(<<Ln("auto bounds = getLocalBounds()", <<>>)>>, root.id, "bounds", 0)
    \o (IF root.autoLayout # <<>>
        THEN generateFlexBoxLayout(root)
        ELSE generateAbsoluteLayout(root.children, root.bounds.width, root.bounds.height))

\* -------------------------------------------------- codegen/generator.ts

\* frame.children.filter(c => c.visible && isIRFrameNode(c)).map(...)
NestedComponents(frame) ==
    LET promoted == SelectSeq(frame.children, LAMBDA c : c.visible /\ isIRFrameNode(c))
    IN  [i \in 1..Len(promoted) |->
            [node |-> promoted[i].id,
             varName |-> toVariableName(promoted[i].name),
             className |-> toClassName(promoted[i].name)]]

\* The member of a component for each visible child: a nested component, a
\* widget detected from the name of the child, or neither; a member of the
\* last kind is declared in a comment only.
ChildMembers(frame) ==
    LET visible == VisibleChildren(frame)
        nested == NestedComponents(frame)
    IN  [i \in 1..Len(visible) |->
            LET c == visible[i]
                isNestedComponent == \E n \in DOMAIN nested : nested[n].node = c.id
            IN  [node |-> c.id,
                 varName |-> toVariableName(c.name),
                 kind |-> IF isNestedComponent THEN "nested component"
                          ELSE IF detectComponentHint(c.name) # 0 THEN "hint"
                          ELSE "placeholder",
                 declaration |-> IF isNestedComponent
                                 THEN <<toClassName(c.name), toVariableName(c.name)>>
                                 ELSE IF detectComponentHint(c.name) # 0
                                 THEN <<detectComponentHint(c.name), toVariableName(c.name)>>
                                 ELSE <<>>,
                 addAndMakeVisible |-> IF isNestedComponent \/ detectComponentHint(c.name) # 0
                                       THEN <<toVariableName(c.name)>>
                                       ELSE <<>>]]

\* Array.from(new Set(refs)): each value once, at its first place.
RECURSIVE Unique(_)
Unique(refs) ==
    IF refs = <<>> THEN <<>>
    ELSE LET rest == Unique(SubSeq(refs, 1, Len(refs) - 1))
             last == refs[Len(refs)]
         IN  IF \E k \in DOMAIN rest : rest[k] = last THEN rest ELSE Append(rest, last)

\* The image references of the visible image fills of a node.
OwnImageRefs(node) ==
    LET fills == SelectSeq(node.fills, LAMBDA fill : fill.type = "image" /\ fill.visible)
    IN  [i \in 1..Len(fills) |-> fills[i].imageRef]

collectImageFillsOwn(node, excludeNodeIds) == Unique(OwnImageRefs(node))

RECURSIVE collectImageFills(_, _)
collectImageFills(node, excludeNodeIds) ==
    IF node.id \in excludeNodeIds THEN <<>>
    ELSE Unique(OwnImageRefs(node)
                \o (IF hasIRChildren(node)
                    THEN Flatten([i \in 1..Len(node.children) |->
                                     collectImageFills(node.children[i], excludeNodeIds)])
                    ELSE <<>>))

\* imageRef.replace(/[^a-zA-Z0-9]/g, '_') after the prefix image_
imageRefToMemberName(imageRef) ==
    <<"i", "m", "a", "g", "e", "_">>
    \o [k \in 1..Len(imageRef) |->
           IF IsLetter(imageRef[k]) \/ imageRef[k] \in Digits THEN imageRef[k] ELSE "_"]

ImageMembers(frame) ==
    LET nested == NestedComponents(frame)
        imageFills == collectImageFills(frame, { nested[n].node : n \in DOMAIN nested })
    IN  [i \in 1..Len(imageFills) |->
            [imageRef |-> imageFills[i], varName |-> imageRefToMemberName(imageFills[i])]]

generateComponent(frame) ==
    [node |-> frame.id,
     className |-> toClassName(frame.name),
     nestedComponents |-> NestedComponents(frame),
     paintBody |-> generatePaintBody(frame),
     resizedBody |-> generateResizedBody(frame),
     childMembers |-> ChildMembers(frame),
     imageMembers |-> ImageMembers(frame)]

\* generateComponentHierarchy generating a frame before its nested frames.
RECURSIVE generateComponentHierarchyPreOrder(_)
generateComponentHierarchyPreOrder(frame) ==
    <<generateComponent(frame)>>
    \o Flatten([i \in 1..Len(frame.children) |->
                   IF frame.children[i].visible /\ isIRFrameNode(frame.children[i])
                   THEN generateComponentHierarchyPreOrder(frame.children[i])
                   ELSE <<>>])

RECURSIVE generateComponentHierarchy(_)
generateComponentHierarchy(frame) ==
    Flatten([i \in 1..Len(frame.children) |->
                IF frame.children[i].visible /\ isIRFrameNode(frame.children[i])
                THEN generateComponentHierarchy(frame.children[i])
                ELSE <<>>])
    \o <<generateComponent(frame)>>

generateFromPage(page) ==
    Flatten([i \in 1..Len(page.children) |->
                IF isIRFrameNode(page.children[i])
                THEN generateComponentHierarchy(page.children[i])
                ELSE <<>>])

generateFromDocument(doc) ==
    Flatten([i \in 1..Len(doc.pages) |-> generateFromPage(doc.pages[i])])

\* ------------------------------------------------- inputs: the IR (Spec)

UniformRadius(r) ==
    [topLeft |-> r, topRight |-> r, bottomRight |-> r, bottomLeft |-> r, isUniform |-> TRUE]

Fill(type, visible) ==
    [type |-> type, visible |-> visible, opacity |-> 100, stops |-> <<>>,
     scaleMode |-> CodeUnitsOf(<<"f", "i", "l", "l">>), imageRef |-> <<>>]
Stroke(visible) == [visible |-> visible, weight |-> 2, opacity |-> 100]
Effect(type, visible) ==
    IF type \in {"dropShadow", "innerShadow"}
    THEN [type |-> type, visible |-> visible, radius |-> 8, offset |-> [x |-> 1, y |-> 0 - 8]]
    ELSE [type |-> type, visible |-> visible, radius |-> 8]
PathData(path, windingRule) == [path |-> path, windingRule |-> windingRule]

\* A node with every optional field absent; `id` is set by WithIds.
BaseNode(type, name) ==
    [id |-> <<>>, name |-> name, type |-> type, visible |-> TRUE, opacity |-> 100,
     bounds |-> [x |-> 0, y |-> 0, width |-> 100, height |-> 50],
     relativeX |-> 10, relativeY |-> 20,
     fills |-> <<>>, strokes |-> <<>>, effects |-> <<>>,
     cornerRadius |-> UniformRadius(0), children |-> <<>>, paths |-> <<>>,
     autoResize |-> "none", constraints |-> <<>>, layoutGrow |-> 0,
     layoutAlign |-> "inherit", autoLayout |-> <<>>]

\* A translucent rectangle with per-corner radii, an invisible and a visible
\* fill, a stroke, and visible and invisible effects; named as a knob.
StyledRect ==
    [BaseNode("rectangle", <<"K", "n", "o", "b", "_", "V", "o", "l", "u", "m", "e">>) EXCEPT
        !.opacity = 50,
        !.fills = <<Fill("solid", FALSE), Fill("solid", TRUE)>>,
        !.strokes = <<Stroke(TRUE)>>,
        !.effects = <<Effect("dropShadow", TRUE), Effect("innerShadow", TRUE),
                      Effect("dropShadow", FALSE)>>,
        !.cornerRadius = [topLeft |-> 10, topRight |-> 20, bottomRight |-> 30,
                          bottomLeft |-> 40, isUniform |-> FALSE],
        !.constraints = <<[horizontal |-> "right", vertical |-> "bottom"]>>]

ImageEllipse ==
    [BaseNode("ellipse", <<"D", "o", "t">>) EXCEPT
        !.fills = <<[Fill("image", TRUE) EXCEPT !.scaleMode = CodeUnitsOf(<<"t", "i", "l", "e">>),
                                                !.opacity = 50,
                                                !.imageRef = <<"a">>],
                    [Fill("image", FALSE) EXCEPT !.imageRef = <<"c">>]>>,
        !.strokes = <<Stroke(FALSE), Stroke(TRUE)>>,
        !.effects = <<Effect("layerBlur", TRUE)>>,
        !.layoutGrow = 1]

TitleText ==
    [BaseNode("text", <<"T", "i", "t", "l", "e">>) EXCEPT !.autoResize = "height", !.layoutAlign = "stretch"]

IconVector ==
    [BaseNode("vector", <<"I", "c", "o", "n">>) EXCEPT
        !.paths = <<PathData(<<"M", "0", " ", "0", "L", "1", "0", " ", "0", "L", "1", "0", " ", "1", "0", "Z">>, "evenodd"), PathData(<<"l", "1", " ", "2", " ", "3", " ", "4">>, "nonzero")>>,
        !.fills = <<[Fill("linearGradient", TRUE) EXCEPT !.stops = <<0, 50, 100>>],
                    [Fill("radialGradient", TRUE) EXCEPT !.stops = <<0>>]>>,
        !.strokes = <<Stroke(TRUE)>>,
        !.effects = <<Effect("dropShadow", TRUE)>>]

HiddenRect ==
    [BaseNode("rectangle", <<"H", "i", "d", "d", "e", "n">>) EXCEPT
        !.visible = FALSE, !.opacity = 50,
        !.fills = <<Fill("solid", TRUE),
                    [Fill("image", TRUE) EXCEPT !.imageRef = <<"d", "-", "1">>]>>,
        !.strokes = <<Stroke(TRUE)>>,
        !.effects = <<Effect("dropShadow", TRUE)>>]

LeafStyles == {StyledRect, ImageEllipse, TitleText, IconVector, HiddenRect}

\* A translucent rounded frame with a gradient fill, a stroke and a drop
\* shadow: a visible frame child, which generateComponent promotes.
SectionFrame ==
    [BaseNode("frame", <<"S", "e", "c", "t", "i", "o", "n">>) EXCEPT
        !.opacity = 50,
        !.fills = <<[Fill("linearGradient", TRUE) EXCEPT !.stops = <<0, 100>>, !.opacity = 50]>>,
        !.strokes = <<Stroke(TRUE)>>,
        !.effects = <<Effect("dropShadow", TRUE)>>,
        !.cornerRadius = UniformRadius(8)]

\* A plain frame to nest inside a container.
InnerFrame ==
    [BaseNode("frame", <<"I", "n", "n", "e", "r">>) EXCEPT
        !.fills = <<Fill("solid", TRUE), [Fill("image", TRUE) EXCEPT !.imageRef = <<"b">>]>>]

NestedStyles == {StyledRect, InnerFrame}

\* A translucent group with a stroke: its children, a frame among them, are
\* painted inline.
PlainGroup ==
    [BaseNode("group", <<"G", "r", "p">>) EXCEPT
        !.opacity = 50, !.strokes = <<Stroke(TRUE)>>,
        !.effects = <<Effect("backgroundBlur", TRUE)>>,
        !.children = <<StyledRect, InnerFrame>>]

HiddenFrame ==
    [BaseNode("frame", <<"H", "i", "d", "d", "e", "n", " ", "P", "a", "n", "e", "l">>) EXCEPT
        !.visible = FALSE, !.fills = <<Fill("solid", TRUE)>>]

KnobInstance ==
    [BaseNode("instance", <<"K", "n", "o", "b", " ", "P", "a", "n", "e", "l">>) EXCEPT
        !.fills = <<[Fill("image", TRUE) EXCEPT !.imageRef = <<"b">>]>>,
        !.cornerRadius = UniformRadius(4)]

PlainRoot ==
    [BaseNode("frame", <<"M", "a", "i", "n", " ", "P", "a", "n", "e", "l">>) EXCEPT
        !.bounds = [x |-> 0, y |-> 0, width |-> 400, height |-> 200],
        !.relativeX = 0, !.relativeY = 0,
        !.fills = <<Fill("solid", TRUE)>>]

FlexRoot ==
    [BaseNode("component", <<"F", "l", "e", "x", "C", "o", "n", "t", "a", "i", "n", "e", "r">>) EXCEPT
        !.bounds = [x |-> 0, y |-> 0, width |-> 300, height |-> 66],
        !.relativeX = 0, !.relativeY = 0,
        !.opacity = 50,
        !.fills = <<Fill("solid", FALSE), Fill("solid", TRUE)>>,
        !.strokes = <<Stroke(TRUE)>>,
        !.effects = <<Effect("dropShadow", TRUE), Effect("innerShadow", TRUE)>>,
        !.autoLayout = <<[mode |-> "horizontal", primaryAxisAlign |-> "min",
                          counterAxisAlign |-> "center", paddingTop |-> 8,
                          paddingRight |-> 8, paddingBottom |-> 8, paddingLeft |-> 8,
                          itemSpacing |-> 12, wrap |-> FALSE]>>]

\* The children a component root may have: a leaf, a frame holding up to
\* MaxNested nodes, a group, an invisible frame with a visible child, an
\* instance.
ChildTrees ==
    LeafStyles
    \cup { [SectionFrame EXCEPT !.children = kids] : kids \in SeqsUpTo(NestedStyles, MaxNested) }
    \cup { PlainGroup, [HiddenFrame EXCEPT !.children = <<StyledRect>>], KnobInstance }

\* A top-level frame of a page with at most n children, visible or not:
\* generateFromPage takes every frame of a page, whatever its visible field.
RootTrees(n) ==
    { [r EXCEPT !.visible = shown, !.children = kids] :
         r \in {PlainRoot, FlexRoot}, shown \in BOOLEAN,
         kids \in SeqsUpTo(ChildTrees, n) }

\* The tree with every node given its position in the tree as its id.
RECURSIVE WithIds(_, _)
WithIds(node, id) ==
    [node EXCEPT !.id = id,
                 !.children = [i \in 1..Len(node.children) |->
                                  WithIds(node.children[i], Append(id, i))]]

\* The documents of one page holding one top-level frame of at most n children.
IRDocuments(n) ==
    { [pages |-> << [children |-> <<WithIds(t, <<1>>)>>] >>] : t \in RootTrees(n) }

EmptyDocument == [pages |-> <<>>]

\* ------------------------------------------------------ the generator run

Init ==
    /\ pc = "input"
    /\ irDoc \in IRDocuments(MaxChildren)
    /\ components = <<>>
    /\ figmaDoc = <<>>
    /\ parsed = <<>>
    /\ pathD = <<>>
    /\ commands = <<>>
    /\ NoPath
    /\ NoFetch

\* generateFromDocument(irDoc)
GenerateFromDocument ==
    /\ pc = "input"
    /\ components' = generateFromDocument(irDoc)
    /\ pc' = "done"
    /\ UNCHANGED <<irDoc, figmaDoc, parsed, pathD, commands, jucePath, fetchVars>>

Next == GenerateFromDocument

Spec == Init /\ [][Next]_vars

\* --------------------------------------------------------- the layout run

MaxLength == 5

\* A component root of the given size with one rectangle in it.
LayoutRoot(w, h, child) ==
    [PlainRoot EXCEPT !.bounds = [x |-> 0, y |-> 0, width |-> w, height |-> h],
                      !.children = <<child>>]

PlacedRect(x, y, w, h, cons) ==
    [BaseNode("rectangle", <<"B", "o", "x">>) EXCEPT
        !.bounds = [x |-> x, y |-> y, width |-> w, height |-> h],
        !.relativeX = x, !.relativeY = y,
        !.constraints = cons]

\* The constraints a child may carry: none, or the same kind on both axes.
ConstraintChoices ==
    {<<>>, <<[horizontal |-> "left", vertical |-> "top"]>>,
     <<[horizontal |-> "right", vertical |-> "bottom"]>>,
     <<[horizontal |-> "center", vertical |-> "center"]>>,
     <<[horizontal |-> "leftRight", vertical |-> "topBottom"]>>,
     <<[horizontal |-> "scale", vertical |-> "scale"]>>}

\* Parent extent, child offset and child extent along one axis: every
\* geometry of up to n half pixels with the child inside the parent
\* or overhanging it by one, the geometry of the constraint example
\* (parent 400, offset 300, extent 80), a child one pixel long, one pixel
\* into a parent of three, and a child whose proportions 57 / 800 and
\* 69 / 800 lie halfway between two literals.
AxisGeometries(n) ==
    { <<p, o, e>> : p \in 0..n, o \in 0..n, e \in 0..n }
    \cup { <<400 * PxScale, 300 * PxScale, 80 * PxScale>>,
            <<3 * PxScale, PxScale, PxScale>>,
            <<800 * PxScale, 57 * PxScale, 69 * PxScale>> }

\* The vertical geometries paired with each horizontal one.
CrossGeometries == { <<0, 1, 3>>, <<3, 1, 2>>, <<200 * PxScale, 41, 101>> }

\* The paddings of an auto-layout frame: none, half a pixel, more.
PaddingChoices == {0, 1, MaxLength}

\* TitleText under another name that gives the same identifier.
RetitledText == [TitleText EXCEPT !.name = <<"t", "i", "t", "l", "e", "!">>]

\* The spacing between the items of an auto-layout frame and its axis:
\* positive, none, and negative (items that overlap).
SpacingChoices ==
    {<<12, "horizontal">>, <<0, "horizontal">>, <<6, "vertical">>, <<0 - 4, "vertical">>}

FlexTrees ==
    { [FlexRoot EXCEPT !.children = <<TitleText, RetitledText>>,
                       !.autoLayout = <<[FlexRoot.autoLayout[1] EXCEPT
                                            !.paddingTop = t, !.paddingRight = r,
                                            !.paddingBottom = b, !.paddingLeft = l,
                                            !.itemSpacing = sp[1], !.mode = sp[2]]>>] :
         t \in PaddingChoices, r \in PaddingChoices, b \in PaddingChoices,
         l \in PaddingChoices, sp \in SpacingChoices }

LayoutTrees(n) ==
    FlexTrees \cup
    { LayoutRoot(hg[1], vg[1], PlacedRect(hg[2], vg[2], hg[3], vg[3], cons)) :
         hg \in AxisGeometries(n), vg \in CrossGeometries, cons \in ConstraintChoices }
    \cup { LayoutRoot(vg[1], hg[1], PlacedRect(vg[2], hg[2], vg[3], hg[3], cons)) :
         hg \in AxisGeometries(n), vg \in CrossGeometries, cons \in ConstraintChoices }

LayoutDocuments(n) ==
    { [pages |-> << [children |-> <<WithIds(t, <<1>>)>>] >>] : t \in LayoutTrees(n) }

InitLayout ==
    /\ pc = "input"
    /\ irDoc \in LayoutDocuments(MaxLength)
    /\ components = <<>>
    /\ figmaDoc = <<>>
    /\ parsed = <<>>
    /\ pathD = <<>>
    /\ commands = <<>>
    /\ NoPath
    /\ NoFetch

SpecLayout == InitLayout /\ [][Next]_vars

\* ---------------------------------------------------------- the paint run

\* The radius of one corner: none, small, large.
RadiusChoices == {0, 10, 40}

\* What extractCornerRadius makes of four radii: uniform when all are equal.
CornerRadii ==
    { [topLeft |-> tl, topRight |-> tr, bottomRight |-> br, bottomLeft |-> bl,
       isUniform |-> (tl = tr /\ tr = br /\ br = bl)] :
         tl \in RadiusChoices, tr \in RadiusChoices, br \in RadiusChoices,
         bl \in RadiusChoices }

\* A filled root frame with the radii, and a root holding a rectangle with
\* the radii that has an invisible fill between two visible ones.
CornerTrees ==
    { [PlainRoot EXCEPT !.cornerRadius = cr] : cr \in CornerRadii }
    \cup { [PlainRoot EXCEPT !.children =
                <<[BaseNode("rectangle", <<"B", "o", "x">>) EXCEPT
                      !.fills = <<Fill("solid", TRUE), Fill("solid", FALSE),
                                  Fill("solid", TRUE)>>,
                      !.cornerRadius = cr]>>] : cr \in CornerRadii }

CornerDocuments == { [pages |-> << [children |-> <<WithIds(t, <<1>>)>>] >>] : t \in CornerTrees }

InitPaint ==
    /\ pc = "input"
    /\ irDoc \in CornerDocuments
    /\ components = <<>>
    /\ figmaDoc = <<>>
    /\ parsed = <<>>
    /\ pathD = <<>>
    /\ commands = <<>>
    /\ NoPath
    /\ NoFetch

SpecPaint == InitPaint /\ [][Next]_vars

\* ------------------------------------------------- figma/types.ts guards

isDocumentNode(node) == node.type = "DOCUMENT"
isCanvasNode(node) == node.type = "CANVAS"
isFrameNode(node) == node.type = "FRAME"
isGroupNode(node) == node.type = "GROUP"
isRectangleNode(node) == node.type = "RECTANGLE"
isEllipseNode(node) == node.type = "ELLIPSE"
isLineNode(node) == node.type = "LINE"
isVectorNode(node) == node.type = "VECTOR"
isBooleanOperationNode(node) == node.type = "BOOLEAN_OPERATION"
isTextNode(node) == node.type = "TEXT"
isComponentNode(node) == node.type = "COMPONENT"
isInstanceNode(node) == node.type = "INSTANCE"

\* ------------------------------------------------------- figma/parser.ts
\* An optional property of a source object is <<>> when absent and <<v>> when
\* present; null, the result of a converter that skips its argument, is <<>>.

\* x ?? d
OrElse(x, d) == IF x = <<>> THEN d ELSE x[1]

\* Math.sqrt on the squares the inputs produce.
Sqrt(v) == CHOOSE r \in 0..v : r * r = v

\* The coordinates of a response are the numbers JSON.parse made of them,
\* doubles, and the normalizer copies and subtracts them as such.
extractBounds(node) ==
    IF node.absoluteBoundingBox # <<>>
    THEN [x |-> node.absoluteBoundingBox[1].x, y |-> node.absoluteBoundingBox[1].y,
          width |-> node.absoluteBoundingBox[1].width,
          height |-> node.absoluteBoundingBox[1].height]
    ELSE IF node.size # <<>>
    THEN [x |-> Zero, y |-> Zero, width |-> node.size[1].x, height |-> node.size[1].y]
    ELSE [x |-> Zero, y |-> Zero, width |-> Zero, height |-> Zero]

\* computeRelativePosition giving the absolute position as the relative one.
computeRelativePositionAbsolute(bounds, parentBounds) ==
    [relativeX |-> bounds.x, relativeY |-> bounds.y]

\* parentBounds is <<>> for null.
computeRelativePosition(bounds, parentBounds) ==
    IF parentBounds = <<>>
    THEN [relativeX |-> Zero, relativeY |-> Zero]
    ELSE [relativeX |-> Minus(bounds.x, parentBounds[1].x),
          relativeY |-> Minus(bounds.y, parentBounds[1].y)]

convertGradientStops(stops) ==
    [i \in 1..Len(stops) |-> [position |-> stops[i].position, color |-> stops[i].color]]

\* convertFill raises a TypeError where it reads the x of a handle position
\* that the array does not hold.
convertFillThrows(paint) ==
    /\ paint.type \in {"GRADIENT_LINEAR", "GRADIENT_RADIAL"}
    /\ paint.gradientHandlePositions # <<>>
    /\ paint.gradientStops # <<>>
    /\ Len(paint.gradientHandlePositions[1])
         < (IF paint.type = "GRADIENT_LINEAR" THEN 2 ELSE 3)

\* The value convertFill returns when it does not raise.
convertFill(paint) ==
    LET visible == paint.visible # <<FALSE>>
        opacity == OrElse(paint.opacity, 100)
        handles == paint.gradientHandlePositions[1]
    IN  CASE paint.type = "SOLID" ->
               IF paint.color = <<>> THEN <<>>
               ELSE <<[type |-> "solid", color |-> paint.color[1],
                       opacity |-> opacity, visible |-> visible]>>
          [] paint.type = "GRADIENT_LINEAR" ->
               IF paint.gradientHandlePositions = <<>> \/ paint.gradientStops = <<>> THEN <<>>
               ELSE <<[type |-> "linearGradient",
                       start |-> [x |-> handles[1].x, y |-> handles[1].y],
                       end |-> [x |-> handles[2].x, y |-> handles[2].y],
                       stops |-> convertGradientStops(paint.gradientStops[1]),
                       opacity |-> opacity, visible |-> visible]>>
          [] paint.type = "GRADIENT_RADIAL" ->
               IF paint.gradientHandlePositions = <<>> \/ paint.gradientStops = <<>> THEN <<>>
               ELSE <<[type |-> "radialGradient",
                       center |-> [x |-> handles[1].x, y |-> handles[1].y],
                       radius |->
                           [x |-> Sqrt((handles[2].x - handles[1].x) * (handles[2].x - handles[1].x)
                                       + (handles[2].y - handles[1].y) * (handles[2].y - handles[1].y)),
                            y |-> Sqrt((handles[3].x - handles[1].x) * (handles[3].x - handles[1].x)
                                       + (handles[3].y - handles[1].y) * (handles[3].y - handles[1].y))],
                       stops |-> convertGradientStops(paint.gradientStops[1]),
                       opacity |-> opacity, visible |-> visible]>>
          [] paint.type = "IMAGE" ->
               \* if (!paint.imageRef): absent or the empty string
               IF paint.imageRef = <<>> \/ paint.imageRef[1] = "" THEN <<>>
               ELSE <<[type |-> "image", imageRef |-> paint.imageRef[1],
                       \* paint.scaleMode?.toLowerCase() ?? 'fill'
                       scaleMode |-> IF paint.scaleMode = <<>> THEN CodeUnitsOf(<<"f", "i", "l", "l">>)
                                     ELSE toLowerCase(paint.scaleMode[1]),
                       opacity |-> opacity, visible |-> visible]>>
          [] OTHER -> <<>>

convertFillsThrows(fills) ==
    fills # <<>> /\ \E i \in 1..Len(fills[1]) : convertFillThrows(fills[1][i])

convertFills(fills) ==
    IF fills = <<>> THEN <<>>
    ELSE Flatten([i \in 1..Len(fills[1]) |-> convertFill(fills[1][i])])

StrokeOf(stroke, strokeWeight) ==
    IF stroke.visible = <<FALSE>> THEN <<>>
    ELSE IF stroke.type # "SOLID" \/ stroke.color = <<>> THEN <<>>
    ELSE <<[color |-> stroke.color[1], weight |-> OrElse(strokeWeight, 1),
            opacity |-> OrElse(stroke.opacity, 100),
            visible |-> stroke.visible # <<FALSE>>]>>

convertStrokes(strokes, strokeWeight) ==
    IF strokes = <<>> THEN <<>>
    ELSE Flatten([i \in 1..Len(strokes[1]) |-> StrokeOf(strokes[1][i], strokeWeight)])

\* effect.offset ? { x: effect.offset.x, y: effect.offset.y } : { x: 0, y: 0 }
OffsetOf(effect) ==
    IF effect.offset = <<>> THEN [x |-> 0, y |-> 0]
    ELSE [x |-> effect.offset[1].x, y |-> effect.offset[1].y]

convertEffect(effect) ==
    CASE effect.type = "DROP_SHADOW" ->
           <<[type |-> "dropShadow", offset |-> OffsetOf(effect), radius |-> effect.radius,
              visible |-> effect.visible]>>
      [] effect.type = "INNER_SHADOW" ->
           <<[type |-> "innerShadow", offset |-> OffsetOf(effect), radius |-> effect.radius,
              visible |-> effect.visible]>>
      [] effect.type = "LAYER_BLUR" ->
           <<[type |-> "layerBlur", radius |-> effect.radius, visible |-> effect.visible]>>
      [] effect.type = "BACKGROUND_BLUR" ->
           <<[type |-> "backgroundBlur", radius |-> effect.radius, visible |-> effect.visible]>>
      [] OTHER -> <<>>

convertEffects(effects) ==
    IF effects = <<>> THEN <<>>
    ELSE Flatten([i \in 1..Len(effects[1]) |-> convertEffect(effects[1][i])])

\* The properties every IR node has, `type` and `children` filled in by the
\* converter of its kind.
extractBaseProperties(node, parentBounds, type, children) ==
    LET bounds == extractBounds(node)
        rel == computeRelativePosition(bounds, parentBounds)
    IN  [id |-> node.id, name |-> node.name, type |-> type,
         visible |-> node.visible # <<FALSE>>,
         opacity |-> OrElse(node.opacity, 100),
         bounds |-> bounds,
         relativeX |-> rel.relativeX, relativeY |-> rel.relativeY,
         fills |-> convertFills(node.fills),
         strokes |-> convertStrokes(node.strokes, node.strokeWeight),
         effects |-> convertEffects(node.effects),
         children |-> children]

convertColor(color) == [r |-> color.r, g |-> color.g, b |-> color.b, a |-> color.a]

\* Of the text style only the colour is modelled.
extractTextStyle(style) ==
    [color |-> IF style.fills # <<>> /\ Len(style.fills[1]) > 0
                  /\ style.fills[1][1].type = "SOLID" /\ style.fills[1][1].color # <<>>
               THEN convertColor(style.fills[1][1].color[1])
               ELSE [r |-> 0, g |-> 0, b |-> 0, a |-> 100]]

convertTextNode(node, parentBounds) ==
    extractBaseProperties(node, parentBounds, "text", <<>>)
    @@ [textStyle |-> extractTextStyle(node.style[1])]

RECURSIVE convertNode(_, _)

\* convertChildren pushing the converted children in reverse order.
convertChildrenReversed(node, parentBounds) ==
    Flatten([i \in 1..Len(node.children) |->
                convertNode(node.children[Len(node.children) + 1 - i], parentBounds)])

convertChildren(node, parentBounds) ==
    Flatten([i \in 1..Len(node.children) |-> convertNode(node.children[i], parentBounds)])

\* convertFrameNode, convertInstanceNode and convertGroupNode: the children
\* are converted against the node's own extracted bounds.
convertFrameNode(node, type, parentBounds) ==
    extractBaseProperties(node, parentBounds, type,
                          convertChildren(node, <<extractBounds(node)>>))

\* The converters of the kinds without children.
convertShapeNode(node, type, parentBounds) ==
    extractBaseProperties(node, parentBounds, type, <<>>)

\* <<>> for null, else the IR node in a 1-tuple.
convertNode(node, parentBounds) ==
    IF node.visible = <<FALSE>> THEN <<>>
    ELSE IF isDocumentNode(node) \/ isCanvasNode(node) THEN <<>>
    ELSE IF isFrameNode(node) THEN <<convertFrameNode(node, "frame", parentBounds)>>
    ELSE IF isComponentNode(node) THEN <<convertFrameNode(node, "component", parentBounds)>>
    ELSE IF isInstanceNode(node) THEN <<convertFrameNode(node, "instance", parentBounds)>>
    ELSE IF isGroupNode(node) THEN <<convertFrameNode(node, "group", parentBounds)>>
    ELSE IF isRectangleNode(node) THEN <<convertShapeNode(node, "rectangle", parentBounds)>>
    ELSE IF isEllipseNode(node) THEN <<convertShapeNode(node, "ellipse", parentBounds)>>
    ELSE IF isTextNode(node) THEN <<convertTextNode(node, parentBounds)>>
    ELSE IF isVectorNode(node) THEN <<convertShapeNode(node, "vector", parentBounds)>>
    ELSE IF isLineNode(node) THEN <<convertShapeNode(node, "line", parentBounds)>>
    ELSE IF isBooleanOperationNode(node)
    THEN <<convertShapeNode(node, "booleanOperation", parentBounds)>>
    ELSE <<>>

\* convertNode(node, ...) raises: the node is converted and one of its paints,
\* or the conversion of one of its children, raises.
RECURSIVE convertNodeThrows(_)
convertNodeThrows(node) ==
    /\ convertNode([node EXCEPT !.children = <<>>, !.fills = <<>>], <<>>) # <<>>
    /\ \/ convertFillsThrows(node.fills)
       \/ /\ isFrameNode(node) \/ isComponentNode(node) \/ isInstanceNode(node)
             \/ isGroupNode(node)
          /\ \E i \in 1..Len(node.children) : convertNodeThrows(node.children[i])

parseCanvasNode(canvas) ==
    [id |-> canvas.id, name |-> canvas.name,
     children |-> Flatten([i \in 1..Len(canvas.children) |->
                              convertNode(canvas.children[i], <<>>)])]

\* The outcome of parseFigmaFile(response): the document it returns, or the
\* exception that leaves it, which nothing in the parser catches.
parseFigmaFile(response) ==
    LET pageNodes == SelectSeq(response.document.children, isCanvasNode)
    IN  IF \E i \in 1..Len(pageNodes) :
              \E k \in 1..Len(pageNodes[i].children) :
                  convertNodeThrows(pageNodes[i].children[k])
        THEN [raised |-> TRUE, document |-> <<>>]
        ELSE [raised |-> FALSE,
              document |-> <<[name |-> response.name,
                              pages |-> [i \in 1..Len(pageNodes) |->
                                            parseCanvasNode(pageNodes[i])]]>>]

\* ------------------------------------- inputs: Figma responses (SpecNorm)

\* A rectangle of a response; its four numbers are doubles.
Box(x, y, w, h) == [x |-> x, y |-> y, width |-> w, height |-> h]
Vec(x, y) == [x |-> x, y |-> y]
Red == [r |-> 100, g |-> 0, b |-> 0, a |-> 100]
ColorStop(position) == [position |-> position, color |-> Red]

\* A paint with every optional property absent.
Paint(type) ==
    [type |-> type, visible |-> <<>>, opacity |-> <<>>, color |-> <<>>,
     gradientHandlePositions |-> <<>>, gradientStops |-> <<>>,
     imageRef |-> <<>>, scaleMode |-> <<>>]

SolidPaint == [Paint("SOLID") EXCEPT !.color = <<Red>>]
InvisibleSolidPaint == [SolidPaint EXCEPT !.visible = <<FALSE>>, !.opacity = <<50>>]
ColourlessSolidPaint == Paint("SOLID")
EmojiPaint == Paint("EMOJI")
ImagePaint == [Paint("IMAGE") EXCEPT !.imageRef = <<"img">>,
                                      !.scaleMode = <<CodeUnitsOf(<<"T", "I", "L", "E">>)>>]
LinearPaint ==
    [Paint("GRADIENT_LINEAR") EXCEPT
        !.gradientHandlePositions = <<<<Vec(0, 0), Vec(10, 0), Vec(0, 10)>>>>,
        !.gradientStops = <<<<ColorStop(0), ColorStop(100)>>>>]
NoStopsPaint == [LinearPaint EXCEPT !.gradientStops = <<>>]
RadialPaint ==
    [Paint("GRADIENT_RADIAL") EXCEPT
        !.gradientHandlePositions = <<<<Vec(5, 5), Vec(8, 9), Vec(5, 7)>>>>,
        !.gradientStops = <<<<>>>>]
\* Gradient paints with fewer handle positions than the converter reads.
ShortRadialPaint ==
    [RadialPaint EXCEPT !.gradientHandlePositions = <<<<Vec(5, 5), Vec(8, 9)>>>>]
ShortLinearPaint ==
    [LinearPaint EXCEPT !.gradientHandlePositions = <<<<Vec(0, 0)>>>>]

\* An effect of a response; of the shadows, a drop shadow carries an offset
\* and an inner shadow none.
FigmaEffect(type, visible) ==
    [type |-> type, radius |-> 4, visible |-> visible,
     offset |-> IF type = "DROP_SHADOW" THEN <<[x |-> 3, y |-> 0 - 1]>> ELSE <<>>]

\* A source node with every optional property absent; `id` is set by WithIds.
FigmaNode(type, name) ==
    [id |-> <<>>, name |-> name, type |-> type, visible |-> <<>>, opacity |-> <<>>,
     absoluteBoundingBox |-> <<>>, size |-> <<>>, fills |-> <<>>, strokes |-> <<>>,
     strokeWeight |-> <<>>, effects |-> <<>>, children |-> <<>>, style |-> <<>>]

\* The type style of a text node; of its properties only the fills, which
\* are optional, are modelled.
TypeStyle(fills) == [fills |-> fills]

RichRectangle ==
    [FigmaNode("RECTANGLE", "Rich") EXCEPT
        !.opacity = <<50>>,
        !.absoluteBoundingBox = <<Box(Quotient(1, 10), FromInt(230), FromInt(30), FromInt(40))>>,
        !.fills = <<<<SolidPaint, EmojiPaint, InvisibleSolidPaint, LinearPaint, NoStopsPaint,
                      RadialPaint, ColourlessSolidPaint, ImagePaint>>>>,
        !.strokes = <<<<SolidPaint, InvisibleSolidPaint, LinearPaint>>>>,
        !.strokeWeight = <<2>>,
        !.effects = <<<<FigmaEffect("DROP_SHADOW", TRUE), FigmaEffect("NOISE", TRUE),
                        FigmaEffect("LAYER_BLUR", FALSE)>>>>]

HiddenEllipse ==
    [FigmaNode("ELLIPSE", "Hidden") EXCEPT
        !.visible = <<FALSE>>, !.absoluteBoundingBox = <<Box(FromInt(130), FromInt(240), FromInt(10), FromInt(10))>>]

SectionNode ==
    [FigmaNode("SECTION", "Section") EXCEPT !.absoluteBoundingBox = <<Box(FromInt(0), FromInt(0), FromInt(10), FromInt(10))>>]

SizedText ==
    [FigmaNode("TEXT", "Text") EXCEPT !.visible = <<TRUE>>, !.size = <<Vec(FromInt(50), FromInt(20))>>,
                                      !.style = <<TypeStyle(<<<<SolidPaint>>>>)>>]

ShortRadialRectangle ==
    [FigmaNode("RECTANGLE", "ShortRadial") EXCEPT
        !.absoluteBoundingBox = <<Box(FromInt(140), FromInt(250), FromInt(10), FromInt(10))>>,
        !.fills = <<<<SolidPaint, ShortRadialPaint>>>>]

ShortLinearLine ==
    [FigmaNode("LINE", "ShortLinear") EXCEPT !.fills = <<<<ShortLinearPaint, SolidPaint>>>>]

StrayCanvas == FigmaNode("CANVAS", "Stray")

FigmaLeaves ==
    {RichRectangle, HiddenEllipse, SectionNode, SizedText, ShortRadialRectangle,
     ShortLinearLine, StrayCanvas}

FigmaNested == {RichRectangle, HiddenEllipse}

InnerFrameNode ==
    [FigmaNode("FRAME", "Inner") EXCEPT !.absoluteBoundingBox = <<Box(FromInt(110), FromInt(210), FromInt(200), FromInt(100))>>]

SizedGroup == [FigmaNode("GROUP", "Group") EXCEPT !.size = <<Vec(FromInt(80), FromInt(60))>>]

\* An invisible instance: its malformed paint and its child are never read.
HiddenInstance ==
    [FigmaNode("INSTANCE", "HiddenInstance") EXCEPT
        !.visible = <<FALSE>>,
        !.absoluteBoundingBox = <<Box(FromInt(150), FromInt(260), FromInt(20), FromInt(20))>>,
        !.fills = <<<<ShortLinearPaint>>>>,
        !.children = <<RichRectangle>>]

FigmaChildTrees ==
    FigmaLeaves
    \cup { [c EXCEPT !.children = kids] :
              c \in {InnerFrameNode, SizedGroup}, kids \in SeqsUpTo(FigmaNested, MaxNested) }
    \cup {HiddenInstance}

TopFrame ==
    [FigmaNode("FRAME", "Top") EXCEPT
        !.absoluteBoundingBox = <<Box(Quotient(7, 10), Quotient(401, 2), FromInt(400), FromInt(300))>>, !.fills = <<<<SolidPaint>>>>]

BareComponent == FigmaNode("COMPONENT", "Bare")

FigmaRootTrees(n) ==
    { [r EXCEPT !.children = kids] :
         r \in {TopFrame, BareComponent}, kids \in SeqsUpTo(FigmaChildTrees, n) }

\* A response of the files endpoint: the document holds one page with one
\* top-level node, and a frame that is not on any page.
FigmaResponse(root) ==
    [name |-> "File",
     document |-> [FigmaNode("DOCUMENT", "Document") EXCEPT
                      !.id = <<0>>,
                      !.children = <<[FigmaNode("CANVAS", "Page") EXCEPT
                                         !.id = <<0, 1>>,
                                         !.children = <<WithIds(root, <<1>>)>>],
                                     [TopFrame EXCEPT !.id = <<0, 2>>]>>]]

FigmaResponses(n) == { FigmaResponse(root) : root \in FigmaRootTrees(n) }

NotParsed == [raised |-> FALSE, document |-> <<>>]

\* ------------------------------------------------------ the normalizer run

InitNorm ==
    /\ pc = "input"
    /\ irDoc = EmptyDocument
    /\ components = <<>>
    /\ figmaDoc \in FigmaResponses(MaxChildren)
    /\ parsed = NotParsed
    /\ pathD = <<>>
    /\ commands = <<>>
    /\ NoPath
    /\ NoFetch

\* parseFigmaFile(figmaDoc)
ParseFigmaFile ==
    /\ pc = "input"
    /\ parsed' = parseFigmaFile(figmaDoc)
    /\ pc' = "done"
    /\ UNCHANGED <<irDoc, components, figmaDoc, pathD, commands, jucePath, fetchVars>>

NextNorm == ParseFigmaFile

SpecNorm == InitNorm /\ [][NextNorm]_vars

\* ------------------------------------------------------------ the text run

\* The most fills of the style of a text node.
MaxFills == 3

Blue == [r |-> 0, g |-> 0, b |-> 100, a |-> 100]
BluePaint == [Paint("SOLID") EXCEPT !.color = <<Blue>>]

\* The paints of a text style: solid ones of two colours, an invisible
\* solid one, a solid one without colour, a gradient.
TextPaints == {SolidPaint, BluePaint, InvisibleSolidPaint, ColourlessSolidPaint, LinearPaint}

\* The styles with no fill list and with a list of at most n fills.
TextStyles(n) ==
    {TypeStyle(<<>>)} \cup { TypeStyle(<<fills>>) : fills \in SeqsUpTo(TextPaints, n) }

\* The responses whose top-level frame holds one text node.
TextResponses(n) ==
    { FigmaResponse([TopFrame EXCEPT !.children = <<[SizedText EXCEPT !.style = <<st>>]>>]) :
         st \in TextStyles(n) }

InitText ==
    /\ pc = "input"
    /\ irDoc = EmptyDocument
    /\ components = <<>>
    /\ figmaDoc \in TextResponses(MaxFills)
    /\ parsed = NotParsed
    /\ pathD = <<>>
    /\ commands = <<>>
    /\ NoPath
    /\ NoFetch

SpecText == InitText /\ [][NextNorm]_vars

\* -------------------------------------------- inputs: path data (SpecPath)

\* The most segments (a command letter and the text after it) of a path.
MaxSegs == 2

PathLetters == {"M", "l", "H", "v", "C", "q", "Z"}

\* Operand texts: none, four numbers, thirteen numbers, and four numbers
\* written without blanks between them (1.5, .5, -2e1, 3).
PathTexts ==
    {<<>>,
     <<" ", "1", "0", " ", "2", "0", " ", "3", "0", " ", "4", "0", " ">>,
     <<"1", " ", "2", " ", "3", " ", "4", " ", "5", " ", "6", " ", "7", " ", "8", " ", "9", " ", "1", "0", " ", "1", "1", " ", "1", "2", " ", "1", "3">>,
     <<"1", ".", "5", ".", "5", "-", "2", "e", "1", ",", "3">>}

PathSegments == { <<l>> \o t : l \in PathLetters, t \in PathTexts }

\* The path strings of at most n segments.
PathStrings(n) == { Flatten(segs) : segs \in SeqsUpTo(PathSegments, n) }

\* --------------------------------------------------------- the parser run

InitPath ==
    /\ pc = "input"
    /\ irDoc = EmptyDocument
    /\ components = <<>>
    /\ figmaDoc = <<>>
    /\ parsed = NotParsed
    /\ pathD \in PathStrings(MaxSegs)
    /\ commands = <<>>
    /\ NoPath
    /\ NoFetch

\* parseSvgPath(pathD)
ParseSvgPath ==
    /\ pc = "input"
    /\ commands' = parseSvgPath(pathD)
    /\ pc' = "done"
    /\ UNCHANGED <<irDoc, components, figmaDoc, parsed, pathD, jucePath, fetchVars>>

NextPath == ParseSvgPath

SpecPath == InitPath /\ [][NextPath]_vars

\* ------------------------------------------------------ the converter run

MaxChars == 4

\* Characters of arbitrary input strings: supported command letters of both
\* cases, an unsupported command letter, and characters of and between
\* numbers, "x" standing for any character the parser knows nothing of.
PathAlphabet == {"M", "l", "a", "Z", "1", "-", ".", "x"}

\* The strings of at most n characters.
AnyStrings(n) == SeqsUpTo(PathAlphabet, n)

\* The most pieces of a path that exercises the cursor.
MaxCmds == 3

\* Every supported letter with its full operands; a relative command of
\* .00004 moves the cursor by less than toFloat writes.  The letters other
\* than the moves and the closes come in pairs, the absolute command before
\* the relative one.
CursorSegments ==
    {<<"M", "1", " ", "2">>, <<"m", ".", "0", "0", "0", "0", "4", " ", "4">>,
     <<"L", "5", " ", "6", "l", "1", " ", "2">>,
     <<"H", "7", "h", ".", "0", "0", "0", "0", "4">>, <<"V", "8", "v", "4">>,
     <<"C", "1", " ", "2", " ", "3", " ", "4", " ", "5", " ", "6",
       "c", "1", " ", "2", " ", "3", " ", "4", " ", "5", " ", "6">>,
     <<"Q", "1", " ", "2", " ", "3", " ", "4", "q", "1", " ", "2", " ", "3", " ", "4">>,
     <<"Z">>, <<"z">>}

\* The paths of at most n such pieces.
CursorStrings(n) == { Flatten(segs) : segs \in SeqsUpTo(CursorSegments, n) }

InitJuce ==
    /\ pc = "input"
    /\ irDoc = EmptyDocument
    /\ components = <<>>
    /\ figmaDoc = <<>>
    /\ parsed = NotParsed
    /\ pathD \in AnyStrings(MaxChars) \cup CursorStrings(MaxCmds)
    /\ commands = <<>>
    /\ NoPath
    /\ NoFetch

\* svgToJucePath({ path: pathD, windingRule: 'nonzero' }); commands is its
\* local of that name.
SvgToJucePath ==
    /\ pc = "input"
    /\ commands' = parseSvgPath(pathD)
    /\ jucePath' = svgToJucePath([path |-> pathD, windingRule |-> "nonzero"])
    /\ pc' = "converted"
    /\ UNCHANGED <<irDoc, components, figmaDoc, parsed, pathD, fetchVars>>

NextJuce == SvgToJucePath

SpecJuce == InitJuce /\ [][NextJuce]_vars

\* ---------------------------------------------- properties of the generator

\* The top-level frame of the document given to the generator.
Root == irDoc.pages[1].children[1]

RECURSIVE Descend(_, _)
Descend(node, path) ==
    IF path = <<>> THEN node ELSE Descend(node.children[Head(path)], Tail(path))

\* The node of the document whose id is `id`.
NodeById(id) == Descend(Root, Tail(id))

IsPrefix(p, q) == Len(p) <= Len(q) /\ SubSeq(q, 1, Len(p)) = p

\* How many of the first n lines of body make the call op.
OpCount(body, op, n) == Cardinality({k \in 1..n : body[k].op = op})

ScopeBalanced(body, open, close) ==
    /\ OpCount(body, open, Len(body)) = OpCount(body, close, Len(body))
    /\ \A n \in 0..Len(body) : OpCount(body, close, n) <= OpCount(body, open, n)

\* C1: every generated paint body is scope-balanced: as many g.restoreState
\* lines as g.saveState lines, as many closing "}" scope lines as opening "{"
\* ones, and in no prefix of the body do the closes outnumber the opens.
PaintBodyBalanced ==
    pc = "done" =>
        \A j \in DOMAIN components :
            /\ ScopeBalanced(components[j].paintBody, "g.saveState", "g.restoreState")
            /\ ScopeBalanced(components[j].paintBody, "{", "}")

\* A paint body with nested saved states and several brace scopes was generated.
PaintBodyBalancedWitness ==
    /\ pc = "done"
    /\ \E j \in DOMAIN components :
          LET body == components[j].paintBody
          IN  /\ OpCount(body, "g.saveState", Len(body)) >= 2
              /\ OpCount(body, "{", Len(body)) >= 2
              /\ \E a, b \in DOMAIN body :
                    /\ a < b
                    /\ body[a].op = "g.saveState" /\ body[a].part = "opacity"
                    /\ body[b].op = "g.saveState" /\ body[b].part = "innerShadow"
                    /\ body[a].node = body[b].node

\* The lines of `body` of step `first` of a node all precede its lines of the
\* steps in `later`.
StepsPrecede(body, first, later) ==
    \A b \in DOMAIN body :
        body[b].part \in later =>
            \A a \in (b + 1)..Len(body) :
                ~(body[a].node = body[b].node /\ body[a].part = first)

\* C2: in every paint body, the drop-shadow operations of a node precede all
\* of its fill operations, and the fill operations of a rectangle, frame or
\* ellipse precede all of its stroke operations.
ShadowFillStrokeOrder ==
    pc = "done" =>
        \A j \in DOMAIN components :
            /\ StepsPrecede(components[j].paintBody, "shadow", {"fill", "path", "text"})
            /\ StepsPrecede(components[j].paintBody, "fill", {"stroke"})

\* A node was painted with a drop shadow, then a fill, then a stroke.
ShadowFillStrokeOrderWitness ==
    /\ pc = "done"
    /\ \E j \in DOMAIN components :
          LET body == components[j].paintBody
          IN  \E a, b, c \in DOMAIN body :
                /\ a < b /\ b < c
                /\ body[a].node = body[b].node /\ body[b].node = body[c].node
                /\ body[a].part = "shadow" /\ body[b].part = "fill" /\ body[c].part = "stroke"

\* The position, among the children of the component whose frame has id
\* `rootId`, of the child a line belongs to; 0 for the frame itself.
ChildIndex(rootId, line) ==
    IF Len(line.node) > Len(rootId) THEN line.node[Len(rootId) + 1] ELSE 0

\* C3: the paint body of a component holds no operation of a child promoted
\* to a separately generated sub-component nor of any descendant of such a
\* child, and the remaining children are painted in their original order.
PromotedNotPaintedInline ==
    pc = "done" =>
        \A j \in DOMAIN components :
            LET c == components[j]
            IN  /\ \A k \in DOMAIN c.paintBody :
                      \A n \in DOMAIN c.nestedComponents :
                          ~IsPrefix(c.nestedComponents[n].node, c.paintBody[k].node)
                /\ \A k \in 1..(Len(c.paintBody) - 1) :
                      ChildIndex(c.node, c.paintBody[k])
                          <= ChildIndex(c.node, c.paintBody[k + 1])

\* Every node on the way from the frame with id rootId down to the node with
\* id `id`, both included, is visible.
VisibleWithin(rootId, id) ==
    \A m \in Len(rootId)..Len(id) : NodeById(SubSeq(id, 1, m)).visible

\* The fill, stroke or effect entry a line was emitted for is visible.
EntryVisible(line) ==
    LET node == NodeById(line.node)
    IN  /\ line.part = "fill" => node.fills[line.idx].visible
        /\ line.part = "stroke" => node.strokes[line.idx].visible
        /\ line.part \in {"shadow", "innerShadow", "blur"} => node.effects[line.idx].visible

\* constraint strategy, a flex item bound to the member in the flex strategy.
PromotedChildPositioned ==
    pc = "done" =>
        \A j \in DOMAIN components :
            LET c == components[j]
            IN  \A n \in DOMAIN c.nestedComponents :
                    \E k \in DOMAIN c.resizedBody :
                        LET line == c.resizedBody[k]
                        IN  /\ line.node = c.nestedComponents[n].node
                            /\ IF NodeById(c.node).autoLayout # <<>>
                               THEN /\ line.op = "fb.items.add"
                                    /\ line.arg.member = <<c.nestedComponents[n].varName>>
                               ELSE /\ line.op = "setBounds"
                                    /\ line.arg = <<c.nestedComponents[n].varName>>

\* C6: for every generated component and every visible frame, component or
\* instance child of its frame, the component of that child is in the list
\* before the component of the parent; an invisible frame child has none.
ComponentsPostOrder ==
    pc = "done" =>
        \A j \in DOMAIN components :
            LET frame == NodeById(components[j].node)
            IN  \A k \in DOMAIN frame.children :
                    LET child == frame.children[k]
                    IN  isIRFrameNode(child) =>
                            IF child.visible
                            THEN \E i \in 1..(j - 1) : components[i].node = child.id
                            ELSE \A i \in DOMAIN components : components[i].node # child.id

\* Three nested frames were generated, innermost first, beside an invisible
\* frame child.
ComponentsPostOrderWitness ==
    /\ pc = "done"
    /\ Len(components) = 3
    /\ IsPrefix(components[2].node, components[1].node)
    /\ IsPrefix(components[3].node, components[2].node)
    /\ \E k \in DOMAIN Root.children :
          isIRFrameNode(Root.children[k]) /\ ~Root.children[k].visible
\* --------------------------------------------- properties of the normalizer

\* The pages of the document the normalizer returned.
ParsedPages == parsed.document[1].pages

\* The page of the response and its top-level source nodes.
SourcePage == figmaDoc.document.children[1]

\* The coordinate of the parent plus the relative coordinate gives the
\* coordinate of the node.
SumsTo(parent, relative, own) == StrictlyEqual(Add(parent, relative), own)

RECURSIVE RelativeConsistent(_)
RelativeConsistent(node) ==
    \A i \in DOMAIN node.children :
        /\ SumsTo(node.bounds.x, node.children[i].relativeX, node.children[i].bounds.x)
        /\ SumsTo(node.bounds.y, node.children[i].relativeY, node.children[i].bounds.y)
        /\ RelativeConsistent(node.children[i])

\* A node normalized with no parent has relativeX = relativeY = 0.
TopLevelAtOrigin ==
    \A p \in DOMAIN ParsedPages :
        \A k \in DOMAIN ParsedPages[p].children :
            /\ StrictlyEqual(ParsedPages[p].children[k].relativeX, Zero)
            /\ StrictlyEqual(ParsedPages[p].children[k].relativeY, Zero)

\* magnitude: the difference and the sum of two of them are exact.
OnHalfPixel(v) ==
    /\ v.cls = "finite"
    /\ v.m = <<>> \/ (v.e >= 0 - 1 /\ BigBitLen(v.m) + v.e <= 52)

\* The relative coordinate is the difference of the two coordinates as the
\* subtraction of doubles gives it, and it sums with the parent's coordinate
\* to the node's when both are on half pixels.
DifferenceOf(parent, relative, own) ==
    /\ relative = Minus(own, parent)
    /\ (OnHalfPixel(parent) /\ OnHalfPixel(own)) => SumsTo(parent, relative, own)

RECURSIVE RelativeIsDifference(_)
RelativeIsDifference(node) ==
    \A i \in DOMAIN node.children :
        /\ DifferenceOf(node.bounds.x, node.children[i].relativeX, node.children[i].bounds.x)
        /\ DifferenceOf(node.bounds.y, node.children[i].relativeY, node.children[i].bounds.y)
        /\ RelativeIsDifference(node.children[i])

\* The kinds of source node the IR represents.
SupportedTypes ==
    {"FRAME", "COMPONENT", "INSTANCE", "GROUP", "RECTANGLE", "ELLIPSE", "TEXT",
     "VECTOR", "LINE", "BOOLEAN_OPERATION"}

\* The source children that are not marked invisible and are of a supported
\* kind, in their order.
Kept(children) ==
    SelectSeq(children, LAMBDA n : n.visible # <<FALSE>> /\ n.type \in SupportedTypes)

\* The IR nodes in irNodes are, one for one and in order, the kept nodes of
\* sourceNodes, and so are their children, all the way down.
RECURSIVE Corresponds(_, _)
Corresponds(sourceNodes, irNodes) ==
    LET kept == Kept(sourceNodes)
    IN  /\ Len(irNodes) = Len(kept)
        /\ \A i \in DOMAIN kept :
              /\ irNodes[i].id = kept[i].id
              /\ irNodes[i].visible
              /\ Corresponds(kept[i].children, irNodes[i].children)

\* C8: the IR child list of every container is the order-preserving
\* subsequence of its source children that are not marked visible = false and
\* whose kind is supported, so that no invisible node and no document or page
\* node is in the IR.
ChildrenFiltered ==
    (pc = "done" /\ ~parsed.raised) =>
        /\ Len(ParsedPages) = 1
        /\ Corresponds(SourcePage.children, ParsedPages[1].children)

\* A frame was normalized whose two children are both kept, the first of them
\* a container that lost a child.
ChildrenFilteredWitness ==
    /\ pc = "done" /\ ~parsed.raised
    /\ \E k \in DOMAIN ParsedPages[1].children :
          LET top == ParsedPages[1].children[k]
              source == SourcePage.children[k]
          IN  /\ Len(top.children) = 2
              /\ top.children[1].children = <<>>
              /\ source.children[1].children # <<>>

\* C9: the normalizer never raises on a source node whose optional fields
\* are absent or malformed, a gradient paint with fewer handle positions than
\* its kind needs included: the entry is defaulted or dropped and the rest is
\* still produced.
NormalizerNeverRaises ==
    pc = "done" => (~parsed.raised /\ Len(ParsedPages) = 1)

\* ------------------------------------------- properties of the path parser

\* The positions of the command letters of d, in order.
LetterPositions(d) == SelectSeq([i \in 1..Len(d) |-> i], LAMBDA i : d[i] \in CmdLetters)

\* The operands that follow the m-th of the command letters of d, which are
\* at the positions ps.
Operands(d, ps, m) ==
    parseNumbers(Trim(SubSeq(d, ps[m] + 1, IF m < Len(ps) THEN ps[m + 1] - 1 ELSE Len(d))))

\* The fixed arity of the command letters the rule is stated for.
Arity(t) ==
    CASE t \in {"M", "m", "L", "l"} -> 2
      [] t \in {"H", "h", "V", "v"} -> 1
      [] t \in {"C", "c"} -> 6
      [] t \in {"Q", "q"} -> 4
      [] OTHER -> 0

\* How many commands a letter followed by n operands stands for.
CommandCount(t, n) ==
    IF Arity(t) > 0 /\ n > Arity(t) THEN (n + Arity(t) - 1) \div Arity(t) ELSE 1

\* How many commands the first m of the letters of d stand for.
RECURSIVE CommandsBefore(_, _, _)
CommandsBefore(d, ps, m) ==
    IF m = 0 THEN 0
    ELSE CommandsBefore(d, ps, m - 1) + CommandCount(d[ps[m]], Len(Operands(d, ps, m)))

\* C10: a command letter followed by more operands than its arity (2 for M/L,
\* 1 for H/V, 6 for C, 4 for Q, either case) yields consecutive commands of
\* that type which take the operands in order, arity operands at a time.
OperandRunSplit ==
    pc = "done" =>
        LET letters == LetterPositions(pathD)
        IN  /\ Len(commands) = CommandsBefore(pathD, letters, Len(letters))
            /\ \A m \in DOMAIN letters :
                  LET t == pathD[letters[m]]
                      run == Operands(pathD, letters, m)
                      first == CommandsBefore(pathD, letters, m - 1)
                  IN  (Arity(t) > 0 /\ Len(run) > Arity(t)) =>
                          \A k \in 1..CommandCount(t, Len(run)) :
                              /\ commands[first + k].type = t
                              /\ commands[first + k].args
                                    = SubSeq(run, (k - 1) * Arity(t) + 1,
                                             IF k * Arity(t) < Len(run)
                                             THEN k * Arity(t) ELSE Len(run))

\* A cubic and a relative quadratic letter, each followed by thirteen
\* operands, were split into three and four commands.
OperandRunSplitWitness ==
    /\ pc = "done"
    /\ Len(commands) = 7
    /\ commands[1].type = "C" /\ Len(commands[1].args) = 6
    /\ commands[3].type = "C" /\ Len(commands[3].args) = 1
    /\ commands[4].type = "q" /\ Len(commands[4].args) = 4
    /\ commands[7].type = "q"

\* ------------------------------------------------------------ figma/api.ts

MaxRetries == 2

\* What a fetch call is answered with: a response with its status, whose
\* body can be read (text(), json() resolve) or not (they reject), or no
\* response at all, the promise of fetch being rejected.
Answer(kind, status, readable) == [kind |-> kind, status |-> status, readable |-> readable]

Answers ==
    {Answer("response", 200, TRUE), Answer("response", 200, FALSE),
     Answer("response", 429, TRUE),
     Answer("response", 403, TRUE), Answer("response", 500, FALSE),
     Answer("rejected", 0, FALSE)}

OkAnyStatus(answer) == answer.kind = "response"

\* response.ok
Ok(answer) == answer.kind = "response" /\ answer.status >= 200 /\ answer.status <= 299

\* new FigmaApiError(message, status), and the error a rejected promise of
\* the n-th request carries.
FigmaApiError(status) == [class |-> "FigmaApiError", status |-> status, request |-> 0]

RejectionOf(n) == [class |-> "Error", status |-> 0, request |-> n]

\* new Error('Failed to fetch from Figma API')
FailedToFetch == [class |-> "Error", status |-> 0, request |-> 0]

Returned(n) == <<[kind |-> "returned", body |-> n, error |-> FailedToFetch]>>

Thrown(error) == <<[kind |-> "thrown", body |-> 0, error |-> error]>>

InitFetch ==
    /\ pc = "loop"
    /\ irDoc = EmptyDocument
    /\ components = <<>>
    /\ figmaDoc = <<>>
    /\ parsed = NotParsed
    /\ pathD = <<>>
    /\ commands = <<>>
    /\ NoPath
    /\ maxRetries \in 0..MaxRetries
    /\ attempt = 0
    /\ requests = <<>>
    /\ lastError = <<>>
    /\ outcome = <<>>

otherVars == <<irDoc, components, figmaDoc, parsed, pathD, commands, jucePath>>

CatchAndRethrow(error) ==
    /\ lastError' = <<error>>
    /\ pc' = "thrown"
    /\ attempt' = attempt
    /\ outcome' = Thrown(error)

\* The catch block for an error that is no FigmaApiError: it is kept as
\* lastError, and the loop sleeps before the next attempt or, after the last
\* attempt, goes on to its end.
CatchAndRetry(error) ==
    /\ lastError' = <<error>>
    /\ IF attempt < maxRetries
       THEN pc' = "sleep" /\ attempt' = attempt
       ELSE pc' = "loop" /\ attempt' = attempt + 1
    /\ outcome' = outcome

\* `await fetch(...)` settles, the call being answered with `answer`: a
\* rejection goes to the catch block, a 429 to the sleep or the throw, and
\* any other response leaves the call awaiting the body of the response
\* (response.text() of a response that is not OK, response.json() of an OK
\* one).
Fetch(answer) ==
    /\ pc = "loop"
    /\ attempt <= maxRetries
    /\ requests' = Append(requests, answer)
    /\ LET n == Len(requests) + 1
       IN  CASE answer.kind = "rejected" -> CatchAndRetry(RejectionOf(n))
             [] answer.kind = "response" /\ answer.status = 429 ->
                   IF attempt < maxRetries
                   THEN pc' = "sleep" /\ UNCHANGED <<attempt, lastError, outcome>>
                   ELSE /\ pc' = "thrown"
                        /\ outcome' = Thrown(FigmaApiError(429))
                        /\ UNCHANGED <<attempt, lastError>>
             [] answer.kind = "response" /\ answer.status # 429 ->
                   pc' = "body" /\ UNCHANGED <<attempt, lastError, outcome>>
    /\ UNCHANGED <<maxRetries, otherVars>>

\* `await response.text()` or `await response.json()` settles for the
\* response of the last request: a body that was read gives the
\* FigmaApiError of a response that is not OK and the return value of an OK
\* one, a body that could not be read goes to the catch block.
ReadBody ==
    /\ pc = "body"
    /\ LET n == Len(requests)
           answer == requests[n]
       IN  IF ~answer.readable THEN CatchAndRetry(RejectionOf(n))
           ELSE IF Ok(answer)
           THEN /\ pc' = "returned"
                /\ outcome' = Returned(n)
                /\ UNCHANGED <<attempt, lastError>>
           ELSE /\ pc' = "thrown"
                /\ outcome' = Thrown(FigmaApiError(answer.status))
                /\ UNCHANGED <<attempt, lastError>>
    /\ UNCHANGED <<maxRetries, requests, otherVars>>

\* The timer of sleep fires: continue with the next attempt.
Wake ==
    /\ pc = "sleep"
    /\ pc' = "loop"
    /\ attempt' = attempt + 1
    /\ UNCHANGED <<maxRetries, requests, lastError, outcome, otherVars>>

\* The loop is over: throw lastError ?? new Error('Failed to fetch from
\* Figma API').
GiveUp ==
    /\ pc = "loop"
    /\ attempt > maxRetries
    /\ pc' = "thrown"
    /\ outcome' = Thrown(IF lastError # <<>> THEN lastError[1] ELSE FailedToFetch)
    /\ UNCHANGED <<maxRetries, attempt, requests, lastError, otherVars>>

NextFetch ==
    \/ \E answer \in Answers : Fetch(answer)
    \/ ReadBody
    \/ Wake
    \/ GiveUp

SpecFetch == InitFetch /\ [][NextFetch]_vars

\* Every request is answered or rejected in the end, the body of every
\* response arrives or fails in the end, and every timer fires.
SpecFetchFair ==
    /\ SpecFetch
    /\ WF_vars(\E answer \in Answers : Fetch(answer))
    /\ WF_vars(ReadBody)
    /\ WF_vars(Wake)
    /\ WF_vars(GiveUp)

\* ------------------------------------------- properties of the converter

JuceOps == {"startNewSubPath", "lineTo", "cubicTo", "quadraticTo", "closeSubPath"}

SupportedLetters == {"M", "m", "L", "l", "H", "h", "V", "v", "C", "c", "Q", "q",
                     "Z", "z"}

Count(s, S) == Cardinality({i \in 1..Len(s) : s[i] \in S})

\* C11: for every input string svgToJucePath returns a list of operations,
\* each a startNewSubPath, lineTo, cubicTo, quadraticTo or closeSubPath, one
\* for each parsed command of a supported letter and none for any other
\* letter; a string without a command letter gives no command and no
\* operation.
UnsupportedLettersSkipped ==
    pc = "converted" =>
        /\ \A i \in 1..Len(jucePath) : jucePath[i].op \in JuceOps
        /\ Len(jucePath) = Count([i \in 1..Len(commands) |-> commands[i].type],
                                 SupportedLetters)
        /\ Len(commands) >= Count(pathD, CmdLetters)
        /\ Count(pathD, CmdLetters) = 0 => commands = <<>> /\ jucePath = <<>>

\* An arc between a move and a close, and junk before them.
UnsupportedLettersSkippedWitness ==
    /\ pc = "converted"
    /\ pathD = <<"x", "M", "a", "Z">>
    /\ Len(commands) = 3
    /\ [i \in 1..Len(jucePath) |-> jucePath[i].op] = <<"startNewSubPath", "closeSubPath">>

\* The commands of a supported letter, in order: one operation each (C11).
SupportedCommands == SelectSeq(commands, LAMBDA c : c.type \in SupportedLetters)

\* The end point of an operation that has one: its last two coordinates.
EndPoint(op) == <<op.args[Len(op.args) - 1], op.args[Len(op.args)]>>

\* The point a command ends at with the cursor at p: its last two operands
\* for an absolute command, the cursor plus them for a relative one, H/h keeping the
\* y of the cursor and V/v its x, and the cursor itself for a close.
EndOf(cmd, p) ==
    LET t == cmd.type
        k == CASE t \in {"C", "c"} -> 4 [] t \in {"Q", "q"} -> 2 [] OTHER -> 0
    IN  CASE t \in {"M", "L", "C", "Q"} -> <<Arg(cmd, k), Arg(cmd, k + 1)>>
          [] t \in {"m", "l", "c", "q"} ->
                <<Add(p[1], Arg(cmd, k)), Add(p[2], Arg(cmd, k + 1))>>
          [] t = "H" -> <<Arg(cmd, 0), p[2]>>
          [] t = "h" -> <<Add(p[1], Arg(cmd, 0)), p[2]>>
          [] t = "V" -> <<p[1], Arg(cmd, 0)>>
          [] t = "v" -> <<p[1], Add(p[2], Arg(cmd, 0))>>
          [] OTHER -> p

\* The operation a command resolves to with the cursor at p, its coordinates
\* as toFloat writes them.
Resolved(cmd, p) ==
    LET t == cmd.type
        abs(k) == Arg(cmd, k)
        dx(k) == Add(p[1], Arg(cmd, k))
        dy(k) == Add(p[2], Arg(cmd, k))
    IN  CASE t = "M" -> Emit("startNewSubPath", <<abs(0), abs(1)>>)
          [] t = "m" -> Emit("startNewSubPath", <<dx(0), dy(1)>>)
          [] t = "L" -> Emit("lineTo", <<abs(0), abs(1)>>)
          [] t = "l" -> Emit("lineTo", <<dx(0), dy(1)>>)
          [] t = "H" -> Emit("lineTo", <<abs(0), p[2]>>)
          [] t = "h" -> Emit("lineTo", <<dx(0), p[2]>>)
          [] t = "V" -> Emit("lineTo", <<p[1], abs(0)>>)
          [] t = "v" -> Emit("lineTo", <<p[1], dy(0)>>)
          [] t = "C" -> Emit("cubicTo", <<abs(0), abs(1), abs(2), abs(3), abs(4), abs(5)>>)
          [] t = "c" -> Emit("cubicTo", <<dx(0), dy(1), dx(2), dy(3), dx(4), dy(5)>>)
          [] t = "Q" -> Emit("quadraticTo", <<abs(0), abs(1), abs(2), abs(3)>>)
          [] t = "q" -> Emit("quadraticTo", <<dx(0), dy(1), dx(2), dy(3)>>)
          [] OTHER -> Emit("closeSubPath", <<>>)

\* The operations ops are those of the commands cmds with the cursor at p:
\* the first is what its command resolves to at p, its end point, if it has
\* one, is the point the command ends at as toFloat writes it, a close ends
\* where it began, and the rest are those of the other commands with the
\* cursor at that point.
RECURSIVE CursorTracks(_, _, _)
CursorTracks(cmds, ops, p) ==
    IF cmds = <<>> THEN ops = <<>>
    ELSE /\ ops # <<>>
         /\ Head(ops) = Resolved(Head(cmds), p)
         /\ LET q == EndOf(Head(cmds), p)
            IN  /\ IF Head(ops).op = "closeSubPath" THEN q = p
                   ELSE EndPoint(Head(ops)) = <<toFloat(q[1]), toFloat(q[2])>>
                /\ CursorTracks(Tail(cmds), Tail(ops), q)

\* C24: the cursor of svgToJucePath starts at the origin; a relative command
\* emits the cursor plus its operands, H/h keep the cursor's y and V/v its x;
\* after a move, line or curve the cursor is the end point of the operation
\* just emitted, which is written with the cursor rounded by toFloat; and
\* Z/z emits a close and leaves the cursor where it was, so that a relative
\* command after a close starts from the point reached before the close.
CursorTracksEndPoint ==
    pc = "converted" => CursorTracks(SupportedCommands, jucePath, <<Zero, Zero>>)

\* A move to (1, 2), a close, and a relative move by (.00004, 4): the move
\* starts from (1, 2) and ends at (1.00004, 6), written as (1.0, 6.0).
CursorTracksEndPointWitness ==
    /\ pc = "converted"
    /\ pathD = <<"M", "1", " ", "2", "Z", "m", ".", "0", "0", "0", "0", "4", " ", "4">>
    /\ Len(jucePath) = 3
    /\ jucePath[2].op = "closeSubPath"
    /\ jucePath[3] = PathOp("startNewSubPath", <<Num(1 * Unit), Num(6 * Unit)>>)

\* ------------------------------------------------ properties of the layout

\* The placements of a resize body: each line of the operation op, which
\* declares the bounds of a child, with the child it is for and the frame
\* that holds the child.
Placements(op) ==
    UNION { { [line |-> components[j].resizedBody[k],
               parent |-> NodeById(components[j].node)] :
                 k \in { k \in DOMAIN components[j].resizedBody :
                           components[j].resizedBody[k].op = op } } :
            j \in DOMAIN components }

ProportionalPlacements == Placements("auto Bounds = getProportion")

\* a proportion literal times the extent of the parent is the design value
ReproducesExactly(literal, parentExtent, design) ==
    LiteralUnits(literal) * parentExtent = design * Unit

\* ... to within half a unit of the last decimal of the literal
ReproducesRounded(literal, parentExtent, design) ==
    2 * Abs(LiteralUnits(literal) * parentExtent - design * Unit) <= parentExtent

\* C12 as stated: evaluated for a parent of its design size (W, H), W > 0
\* and H > 0, the proportion literals of a child give back the child's x, y,
\* width and height exactly.
ProportionalRoundTripExact ==
    pc = "done" =>
        \A pl \in ProportionalPlacements :
            LET W == pl.parent.bounds.width
                H == pl.parent.bounds.height
                child == NodeById(pl.line.node)
            IN  W > 0 /\ H > 0 =>
                    /\ ReproducesExactly(pl.line.arg[2], W, child.relativeX)
                    /\ ReproducesExactly(pl.line.arg[3], H, child.relativeY)
                    /\ ReproducesExactly(pl.line.arg[4], W, child.bounds.width)
                    /\ ReproducesExactly(pl.line.arg[5], H, child.bounds.height)

\* C12: evaluated for a parent of its design size (W, H), the proportion
\* literals of a child give back the child's x and width to within
\* W * 0.00005 and its y and height to within H * 0.00005, the literals being
\* rounded to four decimals; the proportions along a parent dimension that is
\* 0 are 0.
ProportionalRoundTripRounded ==
    pc = "done" =>
        \A pl \in ProportionalPlacements :
            LET W == pl.parent.bounds.width
                H == pl.parent.bounds.height
                child == NodeById(pl.line.node)
            IN  /\ IF W > 0
                   THEN /\ ReproducesRounded(pl.line.arg[2], W, child.relativeX)
                        /\ ReproducesRounded(pl.line.arg[4], W, child.bounds.width)
                   ELSE pl.line.arg[2] = Num(0) /\ pl.line.arg[4] = Num(0)
                /\ IF H > 0
                   THEN /\ ReproducesRounded(pl.line.arg[3], H, child.relativeY)
                        /\ ReproducesRounded(pl.line.arg[5], H, child.bounds.height)
                   ELSE pl.line.arg[3] = Num(0) /\ pl.line.arg[5] = Num(0)

\* A child at a third of the width of its parent: the literal 0.3333 gives
\* back 0.9999 of the child's x.
ProportionalRoundTripWitness ==
    /\ pc = "done"
    /\ \E pl \in ProportionalPlacements :
          /\ pl.parent.bounds.width = 3
          /\ pl.parent.bounds.height > 0
          /\ NodeById(pl.line.node).relativeX = 1
          /\ pl.line.arg[2] = Num(3333)

ConstrainedPlacements == Placements("auto Bounds = juce::Rectangle<int>")

\* C++ division of integers, which truncates towards zero.
TruncDiv(a, b) == IF a >= 0 THEN a \div b ELSE 0 - ((0 - a) \div b)

\* The value in pixels of an emitted expression for a parent whose bounds
\* start at lo and are extent long along the axis of the expression.
Eval(e, lo, extent) ==
    CASE e.form \in {"getX() + a", "getY() + a"} -> lo + e.a
      [] e.form \in {"getRight() - a - b", "getBottom() - a - b"} -> lo + extent - e.a - e.b
      [] e.form \in {"getCentreX() + a - b / 2", "getCentreY() + a - b / 2"} ->
            lo + TruncDiv(extent, 2) + e.a - TruncDiv(e.b, 2)
      [] e.form \in {"getX() + (int)(getWidth() * prop)",
                      "getY() + (int)(getHeight() * prop)"} ->
            lo + TruncDiv(extent * LiteralUnits(e.prop), Unit)
      [] e.form \in {"getWidth() - a - b", "getHeight() - a - b"} -> extent - e.a - e.b
      [] e.form \in {"(int)(getWidth() * prop)", "(int)(getHeight() * prop)"} ->
            TruncDiv(extent * LiteralUnits(e.prop), Unit)
      [] e.form = "a" -> e.a

\* The sizes in pixels a parent is given at run time.
RuntimeExtents == 0..(2 * MaxLength)

\* The trailing edge of the child stays e.a pixels from the trailing edge of
\* the parent, whatever the extent of the parent, and its size stays s.a.
TrailingEdgePinned(e, s) ==
    \A extent \in RuntimeExtents :
        /\ Eval(e, 0, extent) + Eval(s, 0, extent) = extent - e.a
        /\ Eval(s, 0, extent) = s.a

\* The x, width, parent width and child of a 'right' placement, and the y,
\* height, parent height and child of a 'bottom' one.
TrailingPlacements ==
    { [e |-> pl.line.arg[2], s |-> pl.line.arg[4], parentSize |-> pl.parent.bounds.width,
       relOffset |-> NodeById(pl.line.node).relativeX,
       size |-> NodeById(pl.line.node).bounds.width] :
         pl \in { q \in ConstrainedPlacements :
                     NodeById(q.line.node).constraints[1].horizontal = "right" } }
    \cup
    { [e |-> pl.line.arg[3], s |-> pl.line.arg[5], parentSize |-> pl.parent.bounds.height,
       relOffset |-> NodeById(pl.line.node).relativeY,
       size |-> NodeById(pl.line.node).bounds.height] :
         pl \in { q \in ConstrainedPlacements :
                     NodeById(q.line.node).constraints[1].vertical = "bottom" } }

\* C13 as stated: under a 'right' or 'bottom' constraint the emitted margin
\* is parentSize - relOffset - size, and at every runtime parent size the
\* trailing edge of the child is that margin away from the trailing edge of
\* the parent, the size of the child being the same at every parent size.
TrailingMarginExact ==
    pc = "done" =>
        \A t \in TrailingPlacements :
            /\ t.e.a * PxScale = t.parentSize - t.relOffset - t.size
            /\ TrailingEdgePinned(t.e, t.s)

\* C13: under a 'right' or 'bottom' constraint the emitted margin is
\* parentSize - relOffset - size rounded to whole pixels and the emitted size
\* is the size rounded to whole pixels; at every runtime parent size the
\* trailing edge of the child is the emitted margin away from the trailing
\* edge of the parent, and the child has the emitted size.
TrailingMarginRounded ==
    pc = "done" =>
        \A t \in TrailingPlacements :
            /\ 2 * Abs(t.e.a * PxScale - (t.parentSize - t.relOffset - t.size)) <= PxScale
            /\ 2 * Abs(t.s.a * PxScale - t.size) <= PxScale
            /\ t.e.b = t.s.a
            /\ TrailingEdgePinned(t.e, t.s)

\* The example of a parent 400 wide with a child 80 wide at 300: margin 20.
TrailingMarginWitness ==
    /\ pc = "done"
    /\ \E t \in TrailingPlacements :
          /\ t.parentSize = 400 * PxScale
          /\ t.relOffset = 300 * PxScale
          /\ t.size = 80 * PxScale
          /\ t.e.a = 20
          /\ t.s.a = 80

\* The performLayout calls of the resize body of the j-th component.
PerformLayoutCalls(j) ==
    SelectSeq(components[j].resizedBody,
              LAMBDA l : l.op \in {"fb.performLayout", "fb.performLayout reduced"})

\* C14: the resize body of an auto-layout container ends with one
\* performLayout call; the call is made against the bounds reduced by the
\* left, top, right and bottom padding, each rounded to whole pixels, exactly
\* when one of the four paddings is not 0, and against the bounds themselves
\* when all four are 0.
PaddingReducesBounds ==
    pc = "done" =>
        \A j \in DOMAIN components :
            LET frame == NodeById(components[j].node)
                al == frame.autoLayout[1]
                pads == <<al.paddingLeft, al.paddingTop, al.paddingRight, al.paddingBottom>>
                calls == PerformLayoutCalls(j)
                body == components[j].resizedBody
            IN  frame.autoLayout # <<>> =>
                    /\ Len(calls) = 1
                    /\ body[Len(body)] = calls[1]
                    /\ IF \E i \in 1..4 : pads[i] # 0
                       THEN /\ calls[1].op = "fb.performLayout reduced"
                            /\ \A i \in 1..4 :
                                  2 * Abs(calls[1].arg[i] * PxScale - pads[i]) <= PxScale
                       ELSE calls[1].op = "fb.performLayout" /\ calls[1].arg = <<>>

\* A container padded on the left only, and one not padded at all.
PaddingReducesBoundsWitness ==
    /\ pc = "done"
    /\ \E j \in DOMAIN components :
          LET al == NodeById(components[j].node).autoLayout
          IN  /\ al # <<>>
              /\ al[1].paddingLeft = MaxLength
              /\ al[1].paddingTop = 0 /\ al[1].paddingRight = 0 /\ al[1].paddingBottom = 0
              /\ PerformLayoutCalls(j)[1].op = "fb.performLayout reduced"
              /\ PerformLayoutCalls(j)[1].arg[1] = toInt(MaxLength)

\* ------------------------------------------------- properties of the paint

\* The root of the document and its children.
ShallowIds == {<<1>>} \cup { <<1, i>> : i \in DOMAIN Root.children }

\* The operations a paint body holds for the i-th fill of a node.
FillOps(body, id, i) ==
    { body[k].op : k \in { n \in DOMAIN body :
                              /\ body[n].node = id
                              /\ body[n].part = "fill"
                              /\ body[n].idx = i } }

FillLine(body, id, i, op) ==
    CHOOSE l \in { body[k] : k \in DOMAIN body } :
        l.node = id /\ l.part = "fill" /\ l.idx = i /\ l.op = op

RoundingOps == {"g.fillRoundedRectangle", "p.addRoundedRectangle", "corner size",
                "top corners", "bottom corners", "g.fillPath"}

\* C15: each visible fill of a visible rectangle or frame whose four corner
\* radii are not all equal is drawn as a rounded-rectangle path whose corner
\* size is the largest of the four radii and whose four corner flags are set
\* exactly for the radii above 0; with four radii of 0 the fill is drawn by
\* fillRect and no rounding call is emitted.
PerCornerRadii ==
    pc = "done" =>
        \A id \in ShallowIds :
            LET node == NodeById(id)
                cr == node.cornerRadius
                radii == {cr.topLeft, cr.topRight, cr.bottomRight, cr.bottomLeft}
                body == components[1].paintBody
            IN  \A i \in DOMAIN node.fills :
                    LET ops == FillOps(body, id, i)
                    IN  node.fills[i].visible =>
                            /\ Cardinality(radii) > 1 =>
                                  /\ {"p.addRoundedRectangle", "g.fillPath"} \subseteq ops
                                  /\ ops \cap {"g.fillRect", "g.fillRoundedRectangle"} = {}
                                  /\ LET size == FillLine(body, id, i, "corner size").arg
                                     IN  /\ size[1] \in radii /\ size[2] = size[1]
                                         /\ \A r \in radii : r <= size[1]
                                  /\ FillLine(body, id, i, "top corners").arg
                                        = <<cr.topLeft > 0, cr.topRight > 0>>
                                  /\ FillLine(body, id, i, "bottom corners").arg
                                        = <<cr.bottomLeft > 0, cr.bottomRight > 0>>
                            /\ radii = {0} =>
                                  /\ "g.fillRect" \in ops
                                  /\ ops \cap RoundingOps = {}

\* The radii (10, 0, 40, 0): corner size 40, the top-left and the
\* bottom-right corner rounded.
PerCornerRadiiWitness ==
    /\ pc = "done"
    /\ \E id \in ShallowIds :
          LET cr == NodeById(id).cornerRadius
          IN  /\ NodeById(id).fills # <<>>
              /\ cr.topLeft = 10 /\ cr.topRight = 0
              /\ cr.bottomRight = 40 /\ cr.bottomLeft = 0
              /\ "corner size" \in FillOps(components[1].paintBody, id, 1)
              /\ FillLine(components[1].paintBody, id, 1, "corner size").arg = <<40, 40>>
              /\ FillLine(components[1].paintBody, id, 1, "top corners").arg = <<TRUE, FALSE>>
              /\ FillLine(components[1].paintBody, id, 1, "bottom corners").arg = <<FALSE, TRUE>>

\* ----------------------------------------------- properties of the members

\* C16: in every generated component two distinct visible children of the
\* container have different member names, and the name of a child in its
\* member declaration, in its constructor wiring and in the resize body is
\* one and the same.
MemberNamesDistinct ==
    pc = "done" =>
        \A j \in DOMAIN components :
            LET members == components[j].childMembers
                body == components[j].resizedBody
            IN  /\ \A a \in DOMAIN members : \A b \in DOMAIN members :
                      a # b => members[a].varName # members[b].varName
                /\ \A a \in DOMAIN members :
                      /\ members[a].declaration # <<>> =>
                            members[a].declaration[2] = members[a].varName
                      /\ members[a].addAndMakeVisible # <<>> =>
                            members[a].addAndMakeVisible[1] = members[a].varName
                      /\ \A k \in DOMAIN body :
                            (body[k].node = members[a].node
                             /\ body[k].op \in {"auto Bounds = juce::Rectangle<int>",
                                                "auto Bounds = getProportion", "setBounds"})
                            => body[k].arg[1] = members[a].varName

\* The references of the visible image fills of the nodes with the given ids.
VisibleImageRefs(ids) ==
    UNION { { NodeById(id).fills[i].imageRef :
                i \in { k \in DOMAIN NodeById(id).fills :
                          /\ NodeById(id).fills[k].type = "image"
                          /\ NodeById(id).fills[k].visible } } : id \in ids }

RECURSIVE SubtreeIds(_)
SubtreeIds(node) ==
    {node.id} \cup UNION { SubtreeIds(node.children[i]) : i \in DOMAIN node.children }

\* The nodes of a component: its root and the descendants of the root that
\* lie in no promoted child.
OwnIds(j) ==
    SubtreeIds(NodeById(components[j].node))
    \ UNION { SubtreeIds(NodeById(components[j].nestedComponents[n].node)) :
                 n \in DOMAIN components[j].nestedComponents }

\* C17: the image members of a component name each image reference of a
\* visible image fill of the root or of a descendant outside the promoted
\* children exactly once, and name no other reference: none found only
\* inside a promoted child, none found only in an invisible fill.
ImageMembersOfOwnFills ==
    pc = "done" =>
        \A j \in DOMAIN components :
            LET members == components[j].imageMembers
            IN  /\ \A a \in DOMAIN members : \A b \in DOMAIN members :
                      a # b => members[a].imageRef # members[b].imageRef
                /\ { members[a].imageRef : a \in DOMAIN members } = VisibleImageRefs(OwnIds(j))

\* A root holding the same image twice, an invisible image fill, and an
\* instance with an image of its own: one image member.
ImageMembersWitness ==
    /\ pc = "done"
    /\ \E j \in DOMAIN components :
          /\ Len(NodeById(components[j].node).children) = 2
          /\ NodeById(components[j].node).children[1].name = <<"D", "o", "t">>
          /\ Len(components[j].nestedComponents) = 1
          /\ VisibleImageRefs(SubtreeIds(NodeById(components[j].node))) = {<<"a">>, <<"b">>}
          /\ Len(components[j].imageMembers) = 1
          /\ components[j].imageMembers[1].imageRef = <<"a">>

\* ----------------------------------------------- properties of the fetcher

Finished == pc \in {"returned", "thrown"}

\* The request was answered with a response of a status from 200 to 299.
Success(n) ==
    requests[n].kind = "response" /\ requests[n].status \in 200..299

\* The request ended in an error that is no FigmaApiError: its fetch was
\* rejected, or the body of its response (not a 429) could not be read.
Failed(n) ==
    \/ requests[n].kind = "rejected"
    \/ requests[n].kind = "response" /\ requests[n].status # 429 /\ ~requests[n].readable

\* C19 as stated: a call of fetchWithRetry issues at most maxRetries + 1
\* requests; when it has ended and a request was answered with an OK
\* response, it has returned the body of the first such response; when it has
\* ended with every request answered 429, it has thrown a FigmaApiError of
\* status 429 after exactly maxRetries + 1 requests.
FirstOkReturned ==
    /\ Len(requests) <= maxRetries + 1
    /\ (Finished /\ \E n \in DOMAIN requests : Success(n)) =>
          /\ outcome[1].kind = "returned"
          /\ Success(outcome[1].body)
          /\ \A n \in DOMAIN requests : Success(n) => outcome[1].body <= n
    /\ (Finished /\ \A n \in DOMAIN requests : requests[n].status = 429) =>
          /\ outcome[1].kind = "thrown"
          /\ outcome[1].error = FigmaApiError(429)
          /\ Len(requests) = maxRetries + 1

FetchBounded ==
    /\ Len(requests) <= maxRetries + 1
    /\ (Finished /\ outcome[1].kind = "returned") =>
          /\ outcome[1].body = Len(requests)
          /\ Success(outcome[1].body) /\ requests[outcome[1].body].readable
    /\ (Finished /\ \E n \in DOMAIN requests : Success(n) /\ requests[n].readable) =>
          /\ outcome[1].kind = "returned"
          /\ \A n \in DOMAIN requests :
                (Success(n) /\ requests[n].readable) => outcome[1].body <= n
    /\ (Finished /\ \A n \in DOMAIN requests : requests[n].status = 429) =>
          /\ outcome[1].kind = "thrown"
          /\ outcome[1].error = FigmaApiError(429)
          /\ Len(requests) = maxRetries + 1

\* C19: every call of fetchWithRetry ends, after at most maxRetries + 1
\* requests; it returns the body of the first OK response whose body could be
\* read, and returns nothing else; with every request answered 429 it throws
\* a FigmaApiError of status 429 after exactly maxRetries + 1 requests.
FetchTerminates == []FetchBounded /\ <>Finished

\* An OK response whose body cannot be read, then one whose body can.
FetchTerminatesWitness ==
    /\ pc = "returned"
    /\ Len(requests) = 2
    /\ Success(1) /\ ~requests[1].readable
    /\ Success(2) /\ requests[2].readable
    /\ outcome[1].body = 2

\* The n-th request was followed by another one.
Retried(n) == n < Len(requests)

\* The n-th request is over: the call is not awaiting the body of its
\* response.
Settled(n) == n < Len(requests) \/ pc # "body"

\* C20 as stated: a request is followed by another one only if it was
\* answered 429 or its fetch was rejected, and only if it was not the last
\* attempt; any other response that is not OK ends the call, once its body
\* has been awaited, with a FigmaApiError of its status; and when the call
\* ends because rejected fetches used up the attempts, the error thrown is
\* that of the last rejection.
RetryOnly429OrRejected ==
    /\ \A n \in DOMAIN requests :
          /\ Retried(n) =>
                /\ requests[n].kind = "rejected" \/ requests[n].status = 429
                /\ n <= maxRetries
          /\ (requests[n].kind = "response" /\ ~Success(n) /\ requests[n].status # 429
              /\ Settled(n)) =>
                /\ n = Len(requests)
                /\ Finished
                /\ outcome[1].kind = "thrown"
                /\ outcome[1].error = FigmaApiError(requests[n].status)
    /\ (Finished /\ requests # <<>> /\ requests[Len(requests)].kind = "rejected") =>
          /\ outcome[1].kind = "thrown"
          /\ outcome[1].error = RejectionOf(Len(requests))

\* C20: a request is followed by another one exactly when it was answered
\* 429, its fetch was rejected or the body of its response could not be read,
\* and it was not the last attempt; any other response that is not OK ends
\* the call, once its body has been read, with a FigmaApiError of its
\* status, and no request follows it; and when the last
\* attempt ends in a rejection or an unreadable body, that last error is the
\* one thrown.
RetryOnFailureOr429 ==
    /\ \A n \in DOMAIN requests :
          /\ Retried(n) =>
                /\ Failed(n) \/ requests[n].status = 429
                /\ n <= maxRetries
          /\ ((Failed(n) \/ requests[n].status = 429) /\ n <= maxRetries
              /\ n = Len(requests)) => ~Finished
          /\ (requests[n].kind = "response" /\ ~Success(n) /\ requests[n].status # 429
              /\ requests[n].readable /\ Settled(n)) =>
                /\ n = Len(requests)
                /\ Finished
                /\ outcome[1].kind = "thrown"
                /\ outcome[1].error = FigmaApiError(requests[n].status)
    /\ (Finished /\ requests # <<>> /\ Failed(Len(requests))) =>
          /\ outcome[1].kind = "thrown"
          /\ outcome[1].error = RejectionOf(Len(requests))

\* A 500 whose body cannot be read, retried, then a rejected fetch on the
\* last attempt: the rejection is thrown.
RetryOnFailureWitness ==
    /\ pc = "thrown"
    /\ maxRetries = 1
    /\ Len(requests) = 2
    /\ requests[1].status = 500 /\ ~requests[1].readable
    /\ requests[2].kind = "rejected"
    /\ outcome[1].error = RejectionOf(2)

\* ------------------------------------------ properties of the opacity scope

\* Every node from the child of the frame with id rootId on the way down to
\* the node with id `id`, that node included, is visible.
VisibleBelow(rootId, id) ==
    \A m \in (Len(rootId) + 1)..Len(id) : NodeById(SubSeq(id, 1, m)).visible

\* The visible translucent nodes painted inline by the component whose frame
\* has id rootId: the frame itself is not one of them.
TranslucentInline(rootId) ==
    { id \in SubtreeIds(NodeById(rootId)) \ {rootId} :
         VisibleBelow(rootId, id) /\ NodeById(id).opacity < 100 }

\* The lines of body that open and close the opacity scope of node id.
ScopeLines(body, id) == { k \in DOMAIN body : body[k].node = id /\ body[k].part = "opacity" }

\* The lines of body of node id and of its descendants, scope lines aside.
ScopedLines(body, id) ==
    { k \in DOMAIN body : IsPrefix(id, body[k].node) } \ ScopeLines(body, id)

\* The first and the last scope line of node id.
ScopeOpen(body, id) ==
    CHOOSE o \in ScopeLines(body, id) : \A k \in ScopeLines(body, id) : o <= k
ScopeClose(body, id) ==
    CHOOSE c \in ScopeLines(body, id) : \A k \in ScopeLines(body, id) : k <= c

\* Three lines open the scope of node id, one line closes it, and every
\* operation of the node and of its descendants lies between them.
Enclosed(body, id) ==
    /\ ScopeLines(body, id) # {}
    /\ LET o == ScopeOpen(body, id)
           c == ScopeClose(body, id)
       IN  /\ ScopeLines(body, id) = {o, o + 1, o + 2, c}
           /\ o + 2 < c
           /\ body[o].op = "g.saveState"
           /\ body[o + 1].op = "g.reduceClipRegion"
           /\ body[o + 2].op = "g.setOpacity" /\ body[o + 2].arg = <<NodeById(id).opacity>>
           /\ body[c].op = "g.restoreState"
           /\ \A k \in ScopedLines(body, id) : o + 2 < k /\ k < c

\* Scope o1..c1 and scope o2..c2 lie apart or one inside the other.
ProperlyNested(o1, c1, o2, c2) ==
    \/ c1 < o2 \/ c2 < o1
    \/ (o1 < o2 /\ c2 < c1) \/ (o2 < o1 /\ c1 < c2)

\* C21: in every paint body, a visible inline node with opacity < 1 has one
\* opacity scope, opened by saveState, reduceClipRegion and setOpacity before
\* every operation of the node and of its inline descendants and closed by
\* restoreState after all of them, and the scopes of two such nodes lie apart
\* or one inside the other.
OpacityScopeEncloses ==
    pc = "done" =>
        \A j \in DOMAIN components :
            LET body == components[j].paintBody
                ids == TranslucentInline(components[j].node)
            IN  /\ \A id \in ids : Enclosed(body, id)
                /\ \A id1, id2 \in ids :
                      id1 # id2 =>
                          ProperlyNested(ScopeOpen(body, id1), ScopeClose(body, id1),
                                         ScopeOpen(body, id2), ScopeClose(body, id2))

\* A translucent group holding a translucent rectangle was painted inline:
\* the scope of the rectangle lies inside the scope of the group, after the
\* stroke of the group.
OpacityScopeWitness ==
    /\ pc = "done"
    /\ \E j \in DOMAIN components :
          LET body == components[j].paintBody
          IN  \E id1, id2 \in TranslucentInline(components[j].node) :
                /\ id1 # id2 /\ IsPrefix(id1, id2)
                /\ Enclosed(body, id1) /\ Enclosed(body, id2)
                /\ ScopeOpen(body, id1) < ScopeOpen(body, id2)
                /\ ScopeClose(body, id2) < ScopeClose(body, id1)
                /\ \E k \in (ScopeOpen(body, id1) + 3)..(ScopeOpen(body, id2) - 1) :
                      body[k].node = id1 /\ body[k].part = "stroke"

\* The entries of a part of node id that body holds lines for.
PaintedEntries(body, id, part) ==
    { body[k].idx : k \in { m \in DOMAIN body : body[m].node = id /\ body[m].part = part } }

\* The visible effects of the given types among the effects of a node.
VisibleEffects(node, types) ==
    { i \in DOMAIN node.effects : node.effects[i].visible /\ node.effects[i].type \in types }

\* C22: the per-node paint steps apply to the root of a component as to any
\* other visible node: a visible root frame with opacity < 1 gets its opacity
\* scope, and each of its visible drop shadows, inner shadows and strokes
\* gets its operations, the shadows before the fills and the strokes after.
RootPaintSteps ==
    pc = "done" =>
        \A j \in DOMAIN components :
            LET body == components[j].paintBody
                id == components[j].node
                root == NodeById(id)
            IN  root.visible =>
                    /\ root.opacity < 100 => Enclosed(body, id)
                    /\ PaintedEntries(body, id, "shadow") = VisibleEffects(root, {"dropShadow"})
                    /\ PaintedEntries(body, id, "innerShadow")
                           = VisibleEffects(root, {"innerShadow"})
                    /\ PaintedEntries(body, id, "stroke")
                           = { i \in DOMAIN root.strokes : root.strokes[i].visible }
                    /\ StepsPrecede(body, "shadow", {"fill"})
                    /\ StepsPrecede(body, "fill", {"innerShadow", "stroke"})

\* ------------------------------------------- properties of the vector paint

\* The visible vector nodes painted inline by the component with root rootId.
InlineVectors(rootId) ==
    { id \in SubtreeIds(NodeById(rootId)) \ {rootId} :
         VisibleBelow(rootId, id) /\ isIRVectorNode(NodeById(id)) }

\* The lines of body of block i of vector node id, in order.
BlockLines(body, id, i) ==
    SelectSeq(body, LAMBDA l : l.node = id /\ l.part = "path" /\ l.idx = i)

\* How many lines of a block make the call op.
CallCount(block, op) == Cardinality({ k \in DOMAIN block : block[k].op = op })

\* The paint output of vector node id is one scoped block per path-data
\* entry, in entry order; each block declares its path, then fills it once
\* per visible fill that sets a brush, then strokes it once per visible stroke.
PaintedInBlocks(body, id) ==
    LET node == NodeById(id)
        own == SelectSeq(body, LAMBDA l : l.node = id /\ l.part = "path")
    IN  /\ { own[k].idx : k \in DOMAIN own } = DOMAIN node.paths
        /\ \A k \in 1..(Len(own) - 1) : own[k].idx <= own[k + 1].idx
        /\ \A i \in DOMAIN node.paths :
              LET block == BlockLines(body, id, i)
              IN  /\ Len(block) >= 3
                  /\ block[1].op = "{" /\ block[2].op = "juce::Path"
                  /\ block[Len(block)].op = "}"
                  /\ CallCount(block, "{") = 1 /\ CallCount(block, "}") = 1
                  /\ CallCount(block, "g.fillPath")
                         = Cardinality({ f \in DOMAIN node.fills :
                                            /\ node.fills[f].visible
                                            /\ generateFillCode(node.fills[f], <<>>) # <<>> })
                  /\ CallCount(block, "g.strokePath")
                         = Cardinality({ t \in DOMAIN node.strokes : node.strokes[t].visible })
                  /\ \A a, b \in DOMAIN block :
                        (block[a].op = "g.fillPath" /\ block[b].op = "g.strokePath") => a < b
                  /\ \A a, b \in DOMAIN block :
                        (block[a].op \in JuceOps /\ block[b].op \in {"g.fillPath", "g.strokePath"})
                        => a < b

\* C23: in every paint body the output of a visible vector node with k
\* path-data entries is exactly k scoped blocks in entry order, each building
\* its path, then filling it, then stroking it, and the strokes of the node
\* produce no outline operation outside these blocks.
VectorStrokedInBlocksOnly ==
    pc = "done" =>
        \A j \in DOMAIN components :
            \A id \in InlineVectors(components[j].node) :
                /\ PaintedInBlocks(components[j].paintBody, id)
                /\ PaintedEntries(components[j].paintBody, id, "stroke") = {}

\* The part of C23 that the code satisfies: the blocks of every visible vector.
VectorBlocksOnly ==
    pc = "done" =>
        \A j \in DOMAIN components :
            \A id \in InlineVectors(components[j].node) :
                PaintedInBlocks(components[j].paintBody, id)

\* ---------------------------------------- properties of the resize strategy

\* The calls that place one child by itself.
PlacementOps == {"auto Bounds = juce::Rectangle<int>", "auto Bounds = getProportion"}

\* The lines of body emitted for the node with the given id.
LinesOf(body, id) == { k \in DOMAIN body : body[k].node = id }

\* The lines of body that belong to the flex translation.
FlexLines(body) == { k \in DOMAIN body : body[k].part = "flex" }

\* The lines of body that place a child by itself.
PlacementLines(body) == { k \in DOMAIN body : body[k].op \in PlacementOps }

\* C25: the resize body of a container with an Auto-Layout descriptor is the
\* flex translation without any per-child placement; the body of any other
\* container holds no flex line and exactly one placement per visible child,
\* by constraints if the child has them and proportional if not; an
\* invisible child has no line in either.
ResizeStrategyByAutoLayout ==
    pc = "done" =>
        \A j \in DOMAIN components :
            LET body == components[j].resizedBody
                root == NodeById(components[j].node)
            IN  /\ IF root.autoLayout # <<>>
                   THEN /\ PlacementLines(body) = {}
                        /\ \E k \in FlexLines(body) : body[k].op = "juce::FlexBox fb"
                        /\ \E k \in FlexLines(body) :
                              body[k].op \in {"fb.performLayout", "fb.performLayout reduced"}
                   ELSE /\ FlexLines(body) = {}
                        /\ \A i \in DOMAIN root.children :
                              LET child == root.children[i]
                                  placed == LinesOf(body, child.id) \cap PlacementLines(body)
                              IN  child.visible =>
                                      /\ Cardinality(placed) = 1
                                      /\ \A k \in placed :
                                            body[k].op = IF child.constraints # <<>>
                                                         THEN "auto Bounds = juce::Rectangle<int>"
                                                         ELSE "auto Bounds = getProportion"
                /\ \A i \in DOMAIN root.children :
                      ~root.children[i].visible => LinesOf(body, root.children[i].id) = {}

\* A container with Auto-Layout translated its visible child to a flex item
\* and skipped its invisible child, and the container nested in it, which has
\* no Auto-Layout, placed its constrained child by the constraints.
ResizeStrategyWitness ==
    /\ pc = "done"
    /\ \E j \in DOMAIN components :
          LET body == components[j].resizedBody
              root == NodeById(components[j].node)
          IN  /\ root.autoLayout # <<>>
              /\ Len(root.children) = 2
              /\ root.children[1].visible /\ ~root.children[2].visible
              /\ \E k \in FlexLines(body) :
                    body[k].op = "fb.items.add" /\ body[k].node = root.children[1].id
    /\ \E j \in DOMAIN components :
          LET body == components[j].resizedBody
              root == NodeById(components[j].node)
          IN  /\ root.autoLayout = <<>>
              /\ Len(root.children) = 1
              /\ root.children[1].constraints # <<>>
              /\ \E k \in PlacementLines(body) :
                    /\ body[k].node = root.children[1].id
                    /\ body[k].op = "auto Bounds = juce::Rectangle<int>"

\* ------------------------------------------- properties of the flex items

\* The flex items of a resize body, in order.
FlexItems(body) == SelectSeq(body, LAMBDA l : l.op = "fb.items.add")

\* The margin of a flex item, top, right, bottom, left: a FlexItem that is
\* given none has a margin of 0 on every side.
MarginOf(item) == IF item.arg.margin = <<>> THEN <<0, 0, 0, 0>> ELSE item.arg.margin

\* The margin that puts `spacing` before an item along the axis of `mode`.
LeadingMargin(mode, spacing) ==
    IF mode = "horizontal" THEN <<0, 0, 0, spacing>> ELSE <<spacing, 0, 0, 0>>

\* One flex item per visible child, in child order, of the size of the
\* child, with a flex-grow weight exactly when layoutGrow > 0 and stretch
\* self-alignment exactly when layoutAlign is "stretch".
ItemsFollowChildren(body, root) ==
    LET items == FlexItems(body)
        shown == VisibleChildren(root)
    IN  /\ Len(items) = Len(shown)
        /\ \A i \in DOMAIN items :
              /\ items[i].node = shown[i].id
              /\ items[i].arg.w = shown[i].bounds.width
              /\ items[i].arg.h = shown[i].bounds.height
              /\ items[i].arg.withFlex
                     = (IF shown[i].layoutGrow > 0 THEN <<shown[i].layoutGrow>> ELSE <<>>)
              /\ items[i].arg.alignSelfStretch = (shown[i].layoutAlign = "stretch")

\* The first item has no margin and every later item has itemSpacing as its
\* leading margin and 0 on the other sides.
ItemsSpaced(body, al) ==
    LET items == FlexItems(body)
    IN  \A i \in DOMAIN items :
            MarginOf(items[i]) = (IF i = 1 THEN <<0, 0, 0, 0>>
                                  ELSE LeadingMargin(al.mode, al.itemSpacing))

\* C26: in the flex strategy there is exactly one flex item per visible
\* child, in child order and of the child's design-time size, with a
\* flex-grow weight exactly when layoutGrow > 0 and stretch self-alignment
\* exactly when layoutAlign is "stretch"; every item after the first visible
\* one has a leading margin equal to itemSpacing, the first has none.
FlexItemsSpaced ==
    pc = "done" =>
        \A j \in DOMAIN components :
            LET root == NodeById(components[j].node)
            IN  root.autoLayout # <<>> =>
                    /\ ItemsFollowChildren(components[j].resizedBody, root)
                    /\ ItemsSpaced(components[j].resizedBody, root.autoLayout[1])

\* The part of C26 that the code satisfies: the items, and their margins
\* when itemSpacing is not negative.
FlexItemsSpacedApart ==
    pc = "done" =>
        \A j \in DOMAIN components :
            LET root == NodeById(components[j].node)
            IN  root.autoLayout # <<>> =>
                    /\ ItemsFollowChildren(components[j].resizedBody, root)
                    /\ root.autoLayout[1].itemSpacing >= 0 =>
                           ItemsSpaced(components[j].resizedBody, root.autoLayout[1])

\* ------------------------------------------- properties of the shape fills

\* The calls that fill the shape of a node with the current brush.
ShapeFillOps == {"g.fillRect", "g.fillRoundedRectangle", "g.fillPath", "g.fillEllipse"}

\* The calls that set the brush: a colour or a gradient.
BrushOps == {"g.setColour", "g.setGradientFill"}

\* The lines that build the path of a rectangle with per-corner radii,
\* between the brush and the g.fillPath that uses it.
CornerPathOps ==
    {"{", "auto rc", "juce::Path p", "p.addRoundedRectangle", "corner size",
     "top corners", "bottom corners"}

\* A fill entry that sets a brush: a visible solid fill or a visible
\* gradient of two stops or more.
SetsBrush(fill) ==
    /\ fill.visible
    /\ \/ fill.type = "solid"
       \/ fill.type \in {"linearGradient", "radialGradient"} /\ Len(fill.stops) >= 2

\* The last line before line k of body that is not part of a corner path;
\* 0 if there is none.
LineBefore(body, k) ==
    LET before == { m \in 1..(k - 1) : body[m].op \notin CornerPathOps }
    IN  IF before = {} THEN 0 ELSE CHOOSE m \in before : \A n \in before : n <= m

\* Shape-fill line k of body comes directly after a line of the same node
\* that sets the brush.
AfterBrush(body, k) ==
    LET m == LineBefore(body, k)
    IN  m # 0 /\ body[m].op \in BrushOps /\ body[m].node = body[k].node

\* The shape-fill lines of fill entry i of a rectangle, frame or ellipse.
ShapeFillsOf(body, id, i) ==
    { k \in DOMAIN body :
         /\ body[k].node = id /\ body[k].part = "fill" /\ body[k].idx = i
         /\ body[k].op \in ShapeFillOps }

\* Every shape fill of body comes directly after a brush, and the entries of
\* the rectangles, frames and ellipses among `ids` whose fill satisfies
\* `counted` have one shape fill each if they set a brush and none if not.
FillsFollowBrush(body, ids, counted(_)) ==
    /\ \A k \in DOMAIN body :
          (body[k].op \in ShapeFillOps
           /\ (body[k].part = "fill" => counted(NodeById(body[k].node).fills[body[k].idx])))
          => AfterBrush(body, k)
    /\ \A id \in ids :
          LET node == NodeById(id)
          IN  (isIRRectangleNode(node) \/ isIRFrameNode(node) \/ isIREllipseNode(node)) =>
                  \A i \in DOMAIN node.fills :
                      counted(node.fills[i]) =>
                          Cardinality(ShapeFillsOf(body, id, i))
                              = (IF SetsBrush(node.fills[i]) THEN 1 ELSE 0)

\* The nodes a component paints: its root and the nodes below it that are
\* visible all the way down.
PaintedIds(rootId) ==
    { id \in SubtreeIds(NodeById(rootId)) : VisibleBelow(rootId, id) }

\* C27: in every paint body a shape-fill operation comes only directly after
\* its own fill entry has set a colour or gradient brush; a fill entry that
\* sets none (an invisible fill, a gradient of fewer than 2 stops, an image
\* fill) is followed by no shape fill, and every other fill entry by one.
ShapeFillOnlyAfterBrush ==
    pc = "done" =>
        \A j \in DOMAIN components :
            FillsFollowBrush(components[j].paintBody, PaintedIds(components[j].node),
                             LAMBDA fill : TRUE)

\* The part of C27 that the code satisfies: the fills other than visible
\* image fills.
ShapeFillOnlyAfterBrushButImages ==
    pc = "done" =>
        \A j \in DOMAIN components :
            FillsFollowBrush(components[j].paintBody, PaintedIds(components[j].node),
                             LAMBDA fill : ~(fill.visible /\ fill.type = "image"))

\* ------------------------------------------ properties of the text colour

\* The text node of the response and the IR node made of it.
SourceText == SourcePage.children[1].children[1]
ParsedText == ParsedPages[1].children[1].children[1]

\* The fills of the style of the source text; none when the list is absent.
StyleFills == IF SourceText.style[1].fills = <<>> THEN <<>> ELSE SourceText.style[1].fills[1]

\* The solid fills of the style that carry a colour, in order.
SolidFills == SelectSeq(StyleFills, LAMBDA f : f.type = "SOLID" /\ f.color # <<>>)

OpaqueBlack == [r |-> 0, g |-> 0, b |-> 0, a |-> 100]

\* C28: the colour of an IR text node is the colour of the first solid fill
\* of the style-level fill list of the source text, the entries before it
\* that are not solid being passed over, and opaque black when the list is
\* absent, empty or without a solid fill.
TextColourFirstSolid ==
    pc = "done" =>
        ParsedText.textStyle.color
            = (IF SolidFills = <<>> THEN OpaqueBlack ELSE SolidFills[1].color[1])

\* The part of C28 that the code satisfies: the colour is that of the first
\* entry of the list if it is a solid fill with a colour, and opaque black
\* in every other case.
TextColourFirstEntry ==
    pc = "done" =>
        ParsedText.textStyle.color
            = (IF StyleFills # <<>> /\ StyleFills[1].type = "SOLID" /\ StyleFills[1].color # <<>>
               THEN StyleFills[1].color[1]
               ELSE OpaqueBlack)

\* ------------------------------------------ properties of the command arity

\* C29: for every input string, each M, L, H, V, C or Q command of either
\* case that parseSvgPath returns carries exactly its fixed arity of
\* operands, and no operation svgToJucePath emits has a missing coordinate.
CommandsCarryArity ==
    pc = "converted" =>
        /\ \A k \in DOMAIN commands :
              Arity(commands[k].type) > 0 => Len(commands[k].args) = Arity(commands[k].type)
        /\ \A n \in DOMAIN jucePath :
              \A a \in DOMAIN jucePath[n].args : jucePath[n].args[a] # NaN

\* The part of C29 that the code satisfies: no command carries more than its
\* arity, and an operation has a missing coordinate only where its command
\* carries fewer.
CommandsWithinArity ==
    pc = "converted" =>
        /\ \A k \in DOMAIN commands :
              Arity(commands[k].type) > 0 => Len(commands[k].args) <= Arity(commands[k].type)
        /\ Len(jucePath) = Len(SupportedCommands)
        /\ \A n \in DOMAIN jucePath :
              (\E a \in DOMAIN jucePath[n].args : jucePath[n].args[a] = NaN)
              => \E k \in 1..n :
                    Len(SupportedCommands[k].args) < Arity(SupportedCommands[k].type)

\* ------------------------------------- properties of the design-time size

\* The constrained placements taken one axis at a time: the constraint, the
\* position and size expressions, and the design geometry along the axis.
AxisPlacements ==
    { [kind |-> NodeById(pl.line.node).constraints[1].horizontal,
       pos |-> pl.line.arg[2], size |-> pl.line.arg[4],
       parentSize |-> pl.parent.bounds.width,
       relOffset |-> NodeById(pl.line.node).relativeX,
       extent |-> NodeById(pl.line.node).bounds.width] : pl \in ConstrainedPlacements }
    \cup
    { [kind |-> NodeById(pl.line.node).constraints[1].vertical,
       pos |-> pl.line.arg[3], size |-> pl.line.arg[5],
       parentSize |-> pl.parent.bounds.height,
       relOffset |-> NodeById(pl.line.node).relativeY,
       extent |-> NodeById(pl.line.node).bounds.height] : pl \in ConstrainedPlacements }

\* An integer design geometry with the child inside a parent of positive
\* size.
IntegerInside(t) ==
    /\ t.parentSize % PxScale = 0
    /\ t.relOffset % PxScale = 0
    /\ t.extent % PxScale = 0
    /\ t.parentSize > 0
    /\ t.relOffset >= 0
    /\ t.extent >= 0
    /\ t.relOffset + t.extent <= t.parentSize

\* The position and the size, in pixels, that the expressions of t give in
\* a parent of its design-time size.
PosAtDesign(t) == Eval(t.pos, 0, t.parentSize \div PxScale)
SizeAtDesign(t) == Eval(t.size, 0, t.parentSize \div PxScale)

\* C30: for every constraint kind and every integer design geometry with the
\* child inside a parent of positive size, the emitted position and size
\* expressions, evaluated for a parent of its design-time size, give exactly
\* the design-time relative offset and size of the child.
DesignSizeReproduced ==
    pc = "done" =>
        \A t \in AxisPlacements :
            IntegerInside(t) =>
                /\ PosAtDesign(t) * PxScale = t.relOffset
                /\ SizeAtDesign(t) * PxScale = t.extent

\* The part of C30 that the code satisfies: the size is exact under every
\* kind but 'scale', the position under the edge and stretch kinds; a
\* centred child is at most one pixel off, and a scaled one less than
\* 1 + parentSize * 0.00005 pixels.
DesignSizeReproducedAtEdges ==
    pc = "done" =>
        \A t \in AxisPlacements :
            IntegerInside(t) =>
                /\ t.kind # "scale" => SizeAtDesign(t) * PxScale = t.extent
                /\ t.kind \in {"left", "top", "right", "bottom", "leftRight", "topBottom"}
                      => PosAtDesign(t) * PxScale = t.relOffset
                /\ t.kind = "center"
                      => PosAtDesign(t) * PxScale \in {t.relOffset, t.relOffset + PxScale}
                /\ t.kind = "scale" =>
                      /\ 2 * Unit * Abs(PosAtDesign(t) * PxScale - t.relOffset)
                            < 2 * Unit * PxScale + t.parentSize
                      /\ 2 * Unit * Abs(SizeAtDesign(t) * PxScale - t.extent)
                            < 2 * Unit * PxScale + t.parentSize

====
